---------------------------- MODULE Spec2Model ----------------------------
(***************************************************************************)
(* Growth-assessment pipeline of the child growth monitor ML service:      *)
(* nutritional risk classification (main.py), WHO growth standards         *)
(* (utils/who_standards.py), scale calibration (models/pose_estimator.py,  *)
(* utils/measurement_calculator.py).                                       *)
(*                                                                         *)
(* Number representation.  Python floats are modelled exactly:             *)
(*   - z-scores are integers in tenths (z = -3.2 is -32);                  *)
(*   - measurements handed to get_growth_velocity are integers in tenths   *)
(*     of a cm / kg;                                                       *)
(*   - every other real number is a reduced fraction [n |-> _, d |-> _]    *)
(*     with d > 0.                                                         *)
(***************************************************************************)
EXTENDS Integers, Sequences, FiniteSets, TLC

VARIABLES
    pc,                 \* "call": op(args) is about to run; "done": it has returned
                        \* or raised; "idle": the calculator awaits calibrations
    op,                 \* name of the function called
    args,               \* its arguments
    ret,                \* its return value (<<>> before it returns, or when it raised)
    raised,             \* exception that escaped the call, "None" otherwise
    pixel_to_cm_ratio,  \* MeasurementCalculator.pixel_to_cm_ratio
    focal_length,       \* MeasurementCalculator.focal_length
    camera_height,      \* MeasurementCalculator.camera_height
    calibrations,       \* number of calibrate_scale calls made so far
    threads,            \* concurrent calibrate_scale calls: thread -> its position,
                        \* arguments and locals (<<>> when the run has no threads)
    uploads,            \* the ML service's upload handlers: temporary files on disk,
                        \* cleanup tasks registered, the last request (<<>> when the
                        \* run has no uploads)
    backend             \* the backend's consents and scan sessions, its clock and
                        \* its last response (<<>> when the run has no backend)

vars == <<pc, op, args, ret, raised, pixel_to_cm_ratio, focal_length, camera_height,
          calibrations, threads, uploads, backend>>

---------------------------------------------------------------------------
(* Exact arithmetic on fractions.                                          *)

Abs(x) == IF x < 0 THEN -x ELSE x

RECURSIVE GCD(_, _)
GCD(a, b) == IF b = 0 THEN a ELSE GCD(b, a % b)

\* n/d reduced, sign carried by the numerator (d # 0)
Rat(n, d) ==
    LET g == GCD(Abs(n), Abs(d))
        s == IF d < 0 THEN -1 ELSE 1
    IN  [n |-> (s * n) \div g, d |-> (s * d) \div g]

RatAdd(a, b) == Rat(a.n * b.d + b.n * a.d, a.d * b.d)
RatMul(a, b) == Rat(a.n * b.n, a.d * b.d)
RatDiv(a, b) == Rat(a.n * b.d, a.d * b.n)
RatGE(a, b)  == a.n * b.d >= b.n * a.d
RatGT(a, b)  == a.n * b.d > b.n * a.d

\* Python's dict.get(key, default) on a dict modelled as a function
get(d, key, default) == IF key \in DOMAIN d THEN d[key] ELSE default

\* list.count(x) for the three-element status lists of main.py
count(list, x) == Cardinality({i \in DOMAIN list : list[i] = x})

Contains(list, x) == \E i \in DOMAIN list : list[i] = x

\* list.append for an optional element
AppendIf(list, cond, x) == IF cond THEN Append(list, x) ELSE list

---------------------------------------------------------------------------
(* Bounds of the model.                                                    *)

MaxZ == 35              \* z-scores range over -3.5 .. 3.5, in tenths
MaxAgeMonths == 30      \* ages handed to generate_growth_recommendations
MaxMeasSteps == 8       \* measurements 0, 2.5, ..., 20.0 (cm or kg)
MaxDays == 3            \* day intervals -1 .. MaxDays, and the 761-day interval

ZScores == -MaxZ .. MaxZ

\* z-scores a metrics dict carries: the half-unit grid, and the -3.2 of the
\* severe-wasting scenario
MetricZScores == {z \in ZScores : z % 5 = 0 \/ z = -32}

MetricKeys == {"height_z_score", "wfh_z_score", "weight_z_score"}

\* who_metrics dicts: any subset of the three z-score keys may be missing
\* (calculate_metrics returns {} when it fails, who_standards.py:126-128)
WhoMetrics == UNION {[K -> MetricZScores] : K \in SUBSET MetricKeys}

MeasurementTypes == {"height", "weight", "wfh", "muac"}

Ages == {a \in 0 .. MaxAgeMonths : a % 6 \in {0, 5}}

---------------------------------------------------------------------------
(* Nutritional risk classifier: main.py, assess_nutritional_status.        *)

categorize_z_score_exclusive(z_score) ==
    IF z_score > -10 THEN "normal"
    ELSE IF z_score > -20 THEN "mild"
    ELSE IF z_score > -30 THEN "moderate"
    ELSE "severe"

categorize_z_score(z_score) ==
    IF z_score >= -10 THEN "normal"
    ELSE IF z_score >= -20 THEN "mild"
    ELSE IF z_score >= -30 THEN "moderate"
    ELSE "severe"

overall_risk_any_moderate_high(stunting_status, wasting_status, underweight_status) ==
    LET statuses == <<stunting_status, wasting_status, underweight_status>>
        severe_conditions == count(statuses, "severe")
        moderate_conditions == count(statuses, "moderate")
    IN  IF severe_conditions > 0 THEN "critical"
        ELSE IF moderate_conditions > 0 THEN "high"
        ELSE IF count(statuses, "mild") > 1 THEN "medium"
        ELSE "low"

\* a single moderate status not counted towards medium
overall_risk_single_moderate_ignored(stunting_status, wasting_status, underweight_status) ==
    LET statuses == <<stunting_status, wasting_status, underweight_status>>
        severe_conditions == count(statuses, "severe")
        moderate_conditions == count(statuses, "moderate")
    IN  IF severe_conditions > 0 THEN "critical"
        ELSE IF moderate_conditions > 1 THEN "high"
        ELSE IF count(statuses, "mild") > 1 THEN "medium"
        ELSE "low"

\* "Determine overall risk"
overall_risk(stunting_status, wasting_status, underweight_status) ==
    LET statuses == <<stunting_status, wasting_status, underweight_status>>
        severe_conditions == count(statuses, "severe")
        moderate_conditions == count(statuses, "moderate")
    IN  IF severe_conditions > 0 THEN "critical"
        ELSE IF moderate_conditions > 1 THEN "high"
        ELSE IF moderate_conditions > 0 \/ count(statuses, "mild") > 1 THEN "medium"
        ELSE "low"

recommendations_wasting_moderate_only(stunting_status, wasting_status, underweight_status, risk) ==
    LET r1 == AppendIf(<<>>, stunting_status \in {"moderate", "severe"},
                       "Immediate nutritional intervention required for stunting")
        r2 == AppendIf(r1, wasting_status = "moderate",
                       "Urgent treatment needed for acute malnutrition")
        r3 == AppendIf(r2, underweight_status \in {"moderate", "severe"},
                       "Weight monitoring and nutritional support required")
    IN  AppendIf(r3, risk = "low", "Continue regular growth monitoring")

recommendations_low_silent(stunting_status, wasting_status, underweight_status, risk) ==
    LET r1 == AppendIf(<<>>, stunting_status \in {"moderate", "severe"},
                       "Immediate nutritional intervention required for stunting")
        r2 == AppendIf(r1, wasting_status \in {"moderate", "severe"},
                       "Urgent treatment needed for acute malnutrition")
        r3 == AppendIf(r2, underweight_status \in {"moderate", "severe"},
                       "Weight monitoring and nutritional support required")
    IN  AppendIf(r3, risk = "low" /\ r3 # <<>>, "Continue regular growth monitoring")

\* "Generate recommendations"
recommendations(stunting_status, wasting_status, underweight_status, risk) ==
    LET r1 == AppendIf(<<>>, stunting_status \in {"moderate", "severe"},
                       "Immediate nutritional intervention required for stunting")
        r2 == AppendIf(r1, wasting_status \in {"moderate", "severe"},
                       "Urgent treatment needed for acute malnutrition")
        r3 == AppendIf(r2, underweight_status \in {"moderate", "severe"},
                       "Weight monitoring and nutritional support required")
    IN  AppendIf(r3, risk = "low", "Continue regular growth monitoring")

assess_nutritional_status(who_metrics) ==
    LET stunting_status == categorize_z_score(get(who_metrics, "height_z_score", 0))
        wasting_status == categorize_z_score(get(who_metrics, "wfh_z_score", 0))
        underweight_status == categorize_z_score(get(who_metrics, "weight_z_score", 0))
        risk == overall_risk(stunting_status, wasting_status, underweight_status)
    IN  [stunting_status |-> stunting_status,
         wasting_status |-> wasting_status,
         underweight_status |-> underweight_status,
         overall_risk |-> risk,
         recommendations |-> recommendations(stunting_status, wasting_status,
                                             underweight_status, risk)]

---------------------------------------------------------------------------
(* WHO standards: utils/who_standards.py.  The methods are modelled as     *)
(* called; the return annotation List[str] of line 356 names a type the    *)
(* module does not import, which concerns loading the module, not what     *)
(* the methods compute.                                                    *)

\* measurement_type is never read; the except branch ('unknown') needs a
\* comparison that raises, which no numeric z_score produces
classify_nutritional_status(z_score, measurement_type) ==
    IF z_score >= -10 THEN "normal"
    ELSE IF z_score >= -20 THEN "mild"
    ELSE IF z_score >= -30 THEN "moderate"
    ELSE "severe"

generate_growth_recommendations(metrics, age_months) ==
    LET height_z == get(metrics, "height_z_score", 0)
        weight_z == get(metrics, "weight_z_score", 0)
        wfh_z == get(metrics, "wfh_z_score", 0)
        r1 == AppendIf(<<>>, height_z < -20,
                "Child shows signs of stunting. Ensure adequate nutrition and monitor growth closely.")
        r2 == AppendIf(r1, height_z < -20 /\ height_z < -30,
                "Severe stunting detected. Seek immediate nutritional intervention.")
        r3 == AppendIf(r2, weight_z < -20,
                "Child is underweight. Increase caloric intake and protein-rich foods.")
        r4 == AppendIf(r3, weight_z < -20 /\ weight_z < -30,
                "Severe underweight. Immediate medical attention required.")
        r5 == AppendIf(r4, wfh_z < -20,
                "Child shows signs of wasting. Focus on nutrient-dense foods.")
        r6 == AppendIf(r5, wfh_z < -20 /\ wfh_z < -30,
                "Severe acute malnutrition. Emergency treatment needed.")
        r7 == AppendIf(r6, ~(wfh_z < -20) /\ wfh_z > 20,
                "Child may be overweight. Ensure balanced nutrition and physical activity.")
        r8 == AppendIf(r7, age_months < 6,
                "Exclusive breastfeeding recommended until 6 months.")
        r9 == AppendIf(r8, ~(age_months < 6) /\ age_months < 24,
                "Continue breastfeeding while introducing complementary foods.")
        r10 == AppendIf(r9, ~(age_months < 6) /\ age_months < 24,
                "Ensure iron-rich foods to prevent anemia.")
    IN  IF r10 = <<>>
        THEN <<"Child's growth appears normal. Continue regular monitoring.",
               "Maintain balanced nutrition and regular health check-ups.">>
        ELSE r10

\* velocity_per_month >= normal, >= slow, else very_slow
velocity_status(velocity_per_month, normal, slow) ==
    IF RatGE(velocity_per_month, normal) THEN "normal"
    ELSE IF RatGE(velocity_per_month, slow) THEN "slow"
    ELSE "very_slow"

DaysPerMonthHundredths == 3044      \* 30.44

velocity_result(change, days_between, status, unit) ==
    [velocity |-> Rat(change * DaysPerMonthHundredths, days_between * 1000),
     velocity_per_day |-> Rat(change, days_between * 10),
     total_change |-> Rat(change, 10),
     status |-> status,
     unit |-> unit,
     days_interval |-> days_between]

\* the interval guard written "< 0": a zero interval reaches the division,
\* whose ZeroDivisionError the except branch turns into the 'error' result
get_growth_velocity_zero_unguarded(current_measurement, previous_measurement, days_between, measurement_type) ==
    LET change == current_measurement - previous_measurement
    IN  IF days_between < 0
        THEN [velocity |-> Rat(0, 1), status |-> "invalid_interval"]
        ELSE IF measurement_type \in {"height", "weight"} /\ days_between = 0
        THEN [velocity |-> Rat(0, 1), status |-> "error"]
        ELSE IF measurement_type = "height"
        THEN velocity_result(change, days_between,
                 velocity_status(Rat(change * DaysPerMonthHundredths, days_between * 1000),
                                 Rat(8, 10), Rat(4, 10)), "cm/month")
        ELSE IF measurement_type = "weight"
        THEN velocity_result(change, days_between,
                 velocity_status(Rat(change * DaysPerMonthHundredths, days_between * 1000),
                                 Rat(2, 10), Rat(1, 10)), "kg/month")
        ELSE [velocity |-> Rat(0, 1), status |-> "unknown_type"]

\* the height thresholds compared with ">" instead of ">="
get_growth_velocity_exclusive(current_measurement, previous_measurement, days_between, measurement_type) ==
    LET change == current_measurement - previous_measurement
        v == Rat(change * DaysPerMonthHundredths, days_between * 1000)
    IN  IF days_between <= 0
        THEN [velocity |-> Rat(0, 1), status |-> "invalid_interval"]
        ELSE IF measurement_type = "height"
        THEN velocity_result(change, days_between,
                 IF RatGT(v, Rat(8, 10)) THEN "normal"
                 ELSE IF RatGT(v, Rat(4, 10)) THEN "slow" ELSE "very_slow", "cm/month")
        ELSE IF measurement_type = "weight"
        THEN velocity_result(change, days_between,
                 velocity_status(v, Rat(2, 10), Rat(1, 10)), "kg/month")
        ELSE [velocity |-> Rat(0, 1), status |-> "unknown_type"]

\* measurements in tenths of a cm / kg; no arithmetic on these inputs raises,
\* so the except branch ('error') is not taken
get_growth_velocity(current_measurement, previous_measurement, days_between, measurement_type) ==
    LET change == current_measurement - previous_measurement
    IN  IF days_between <= 0
        THEN [velocity |-> Rat(0, 1), status |-> "invalid_interval"]
        ELSE IF measurement_type = "height"
        THEN velocity_result(change, days_between,
                 velocity_status(Rat(change * DaysPerMonthHundredths, days_between * 1000),
                                 Rat(8, 10), Rat(4, 10)), "cm/month")
        ELSE IF measurement_type = "weight"
        THEN velocity_result(change, days_between,
                 velocity_status(Rat(change * DaysPerMonthHundredths, days_between * 1000),
                                 Rat(2, 10), Rat(1, 10)), "kg/month")
        ELSE [velocity |-> Rat(0, 1), status |-> "unknown_type"]

Measurements == {25 * m : m \in 0 .. MaxMeasSteps}

\* 761 days is the interval at which a change of 20.0 / 10.0 / 5.0 / 2.5
\* gives exactly 0.8 / 0.4 / 0.2 / 0.1 per month
DayIntervals == (-1 .. MaxDays) \cup {761}

---------------------------------------------------------------------------
(* Scale calibrator: models/pose_estimator.py, _calculate_scale_factor.    *)

MaxLandmarks == 2       \* landmarks in the list handed to _calculate_scale_factor

estimated_head_width_cm == 15

\* Optional[float]: <<>> is None, <<v>> the value v
None == <<>>
truthy(optional) == optional # None /\ optional[1] # 0

LandmarkNames == {"nose", "left_ear", "left_eye"}
XCoords == {0, 2}

\* landmark dicts; the keys the function reads ('name', 'x') may be absent
LandmarkDicts ==
    [name : LandmarkNames, x : XCoords] \cup [name : LandmarkNames] \cup [x : XCoords]

LandmarkLists == UNION {[1 .. n -> LandmarkDicts] : n \in 0 .. MaxLandmarks}

ReferenceSizes == {None, <<0>>, <<15>>}

\* next(lm for lm in landmarks if lm['name'] == name)
RECURSIVE next_named(_, _)
next_named(landmarks, name) ==
    IF landmarks = <<>> THEN [exc |-> "StopIteration"]
    ELSE IF "name" \notin DOMAIN Head(landmarks) THEN [exc |-> "KeyError"]
    ELSE IF Head(landmarks).name = name THEN [exc |-> "None", lm |-> Head(landmarks)]
    ELSE next_named(Tail(landmarks), name)

Return(value) == [value |-> <<value>>, raised |-> "None"]
Raise(exception) == [value |-> <<>>, raised |-> exception]

\* the width test written ">= 0": a zero width reaches the division, and
\* ZeroDivisionError is not among the exceptions the function catches
calculate_scale_factor_zero_unguarded(landmarks, reference_size_cm) ==
    LET nose == next_named(landmarks, "nose")
        left_ear == next_named(landmarks, "left_ear")
    IN  IF truthy(reference_size_cm) THEN Return(Rat(1, 1))
        ELSE IF nose.exc # "None" \/ left_ear.exc # "None" THEN Return(Rat(4, 10))
        ELSE IF "x" \notin DOMAIN left_ear.lm \/ "x" \notin DOMAIN nose.lm
        THEN Return(Rat(4, 10))
        ELSE IF Abs(left_ear.lm.x - nose.lm.x) * 2 = 0 THEN Raise("ZeroDivisionError")
        ELSE Return(Rat(estimated_head_width_cm, Abs(left_ear.lm.x - nose.lm.x) * 2))

\* RealPoseEstimator._calculate_scale_factor; StopIteration and KeyError are
\* caught and lead to the default
calculate_scale_factor(landmarks, reference_size_cm) ==
    LET nose == next_named(landmarks, "nose")
        left_ear == next_named(landmarks, "left_ear")
    IN  IF truthy(reference_size_cm) THEN Return(Rat(1, 1))
        ELSE IF nose.exc # "None" \/ left_ear.exc # "None" THEN Return(Rat(4, 10))
        ELSE IF "x" \notin DOMAIN left_ear.lm \/ "x" \notin DOMAIN nose.lm
        THEN Return(Rat(4, 10))
        ELSE IF Abs(left_ear.lm.x - nose.lm.x) * 2 > 0
        THEN Return(Rat(estimated_head_width_cm, Abs(left_ear.lm.x - nose.lm.x) * 2))
        ELSE Return(Rat(4, 10))

---------------------------------------------------------------------------
(* Measurement calculator: utils/measurement_calculator.py.                *)

MaxCalibrations == 2    \* calibrate_scale calls in one run
MaxKnown == 2           \* known_measurement ranges over -1 .. MaxKnown (cm)
MaxPixels == 2          \* measured_pixels ranges over -1 .. MaxPixels

\* the blend weighted 0.3 previous, 0.7 new
calibrate_scale_new_weighted(ratio, known_measurement, measured_pixels) ==
    IF measured_pixels > 0
    THEN RatAdd(RatMul(Rat(3, 10), ratio),
                RatMul(Rat(7, 10), Rat(known_measurement, measured_pixels)))
    ELSE ratio

\* the new value of pixel_to_cm_ratio, which is also the value returned
calibrate_scale(ratio, known_measurement, measured_pixels) ==
    IF measured_pixels > 0
    THEN RatAdd(RatMul(Rat(7, 10), ratio),
                RatMul(Rat(3, 10), Rat(known_measurement, measured_pixels)))
    ELSE ratio

---------------------------------------------------------------------------
(* Growth reference, approximation path: who_standards.py.  No data files   *)
(* ship with the repository, so standards_loaded is False and               *)
(* _initialize_approximations supplies the parameters; _lookup_who_table    *)
(* falls back to the same formulas.  All quantities are exact fractions.    *)

MaxChildAgeMonths == 60     \* ScanMetadata.child_age_months, le=60

RatMax(a, b) == IF RatGE(a, b) THEN a ELSE b
RatMin(a, b) == IF RatGE(a, b) THEN b ELSE a
RatNeg(a) == [n |-> -a.n, d |-> a.d]

\* the lower end of the scale at 0.0 instead of 0.1
z_score_to_percentile_floor_zero(z_score) ==
    IF RatGE(Rat(-3, 1), z_score) THEN Rat(0, 1)
    ELSE IF RatGE(z_score, Rat(3, 1)) THEN Rat(999, 10)
    ELSE RatMax(Rat(0, 1),
                RatMin(Rat(999, 10),
                       RatAdd(Rat(50, 1), RatMul(z_score, Rat(3413, 100)))))

\* _z_score_to_percentile: 0.1 at or below -3, 99.9 at or above +3, and
\* 50 + 34.13 z clamped to [0.1, 99.9] in between
z_score_to_percentile(z_score) ==
    IF RatGE(Rat(-3, 1), z_score) THEN Rat(1, 10)
    ELSE IF RatGE(z_score, Rat(3, 1)) THEN Rat(999, 10)
    ELSE RatMax(Rat(1, 10),
                RatMin(Rat(999, 10),
                       RatAdd(Rat(50, 1), RatMul(z_score, Rat(3413, 100)))))

\* self.growth_approximations
growth_approximations ==
    [height_for_age |->
        [male   |-> [birth |-> Rat(499, 10), monthly_increment |-> Rat(12, 10),
                     std_dev |-> Rat(2, 1)],
         female |-> [birth |-> Rat(491, 10), monthly_increment |-> Rat(11, 10),
                     std_dev |-> Rat(2, 1)]],
     weight_for_age |->
        [male   |-> [birth |-> Rat(33, 10), monthly_increment |-> Rat(4, 10),
                     std_dev |-> Rat(8, 10)],
         female |-> [birth |-> Rat(32, 10), monthly_increment |-> Rat(38, 100),
                     std_dev |-> Rat(75, 100)]]]

\* the increment taken as constant over age
decayed_increment_constant(increment, age_months, decay) == increment

\* params['monthly_increment'] * (1 - age_months * decay)
decayed_increment(increment, age_months, decay) ==
    RatMul(increment, RatAdd(Rat(1, 1), RatNeg(RatMul(Rat(age_months, 1), decay))))

\* _approximate_height_for_age; a gender without parameters raises KeyError
\* inside the try block and yields the two-key default
approximate_height_for_age(height_cm, age_months, gender) ==
    IF gender \notin DOMAIN growth_approximations.height_for_age
    THEN [height_percentile |-> Rat(50, 1), height_z_score |-> Rat(0, 1)]
    ELSE LET params == growth_approximations.height_for_age[gender]
             monthly_increment ==
                 decayed_increment(params.monthly_increment, age_months, Rat(5, 1000))
             expected_height ==
                 RatAdd(params.birth, RatMul(monthly_increment, Rat(age_months, 1)))
             z_score == RatDiv(RatAdd(height_cm, RatNeg(expected_height)), params.std_dev)
         IN  [height_percentile |-> z_score_to_percentile(z_score),
              height_z_score |-> z_score,
              height_expected |-> expected_height]

\* _approximate_weight_for_age
approximate_weight_for_age(weight_kg, age_months, gender) ==
    IF gender \notin DOMAIN growth_approximations.weight_for_age
    THEN [weight_percentile |-> Rat(50, 1), weight_z_score |-> Rat(0, 1)]
    ELSE LET params == growth_approximations.weight_for_age[gender]
             monthly_increment ==
                 decayed_increment(params.monthly_increment, age_months, Rat(8, 1000))
             expected_weight ==
                 RatAdd(params.birth, RatMul(monthly_increment, Rat(age_months, 1)))
             z_score == RatDiv(RatAdd(weight_kg, RatNeg(expected_weight)), params.std_dev)
         IN  [weight_percentile |-> z_score_to_percentile(z_score),
              weight_z_score |-> z_score,
              weight_expected |-> expected_weight]

ChildAges == 0 .. MaxChildAgeMonths

Genders == {"male", "female", "other"}

\* observed heights (cm) and weights (kg), in tenths
HeightsTenths == {450, 600, 785, 900, 1100}
WeightsTenths == {30, 80, 120, 200}

---------------------------------------------------------------------------
(* Multi-view fusion: main.py, combine_multi_scan_results.  Measurement     *)
(* values are integers in tenths, per-view confidences integers in          *)
(* hundredths (AnthropometricMeasurement.confidence is validated to lie in  *)
(* [0, 1], main.py:87); fused values and confidences are fractions.         *)

MaxProfile == 3         \* per-view results are drawn from Profile(0 .. MaxProfile)

ViewNames == {"front", "back", "side_left", "side_right"}

FusedMeasurements == {"height", "weight", "arm_circumference", "head_circumference"}

ConfidenceGrid == <<0, 50, 95, 100>>

\* a view's PredictionResult, reduced to the four measurements fusion reads
Profile(k) ==
    [height |-> [value |-> 700 + 50 * k, confidence |-> ConfidenceGrid[(k % 4) + 1]],
     weight |-> [value |-> 90 + 10 * k, confidence |-> ConfidenceGrid[((k + 1) % 4) + 1]],
     arm_circumference |->
         [value |-> 130 + 5 * k, confidence |-> ConfidenceGrid[((k + 2) % 4) + 1]],
     head_circumference |->
         [value |-> 440 + 10 * k, confidence |-> ConfidenceGrid[((k + 3) % 4) + 1]]]

\* scan_results: any subset of the four views may be present
ScanResults == UNION {[V -> {Profile(k) : k \in 0 .. MaxProfile}] : V \in SUBSET ViewNames}

\* scan_weights.get(scan_type, 0.1), in hundredths
scan_weights(scan_type) ==
    CASE scan_type = "front" -> 40
      [] scan_type = "back" -> 30
      [] scan_type = "side_left" -> 15
      [] scan_type = "side_right" -> 15
      [] OTHER -> 10

RECURSIVE Sum(_, _)
Sum(f, S) == IF S = {} THEN 0 ELSE LET x == CHOOSE y \in S : TRUE
                                   IN  f[x] + Sum(f, S \ {x})

\* the weights not normalised over the views present: the weighted sum is
\* divided by the total of the four weights
np_average_all_weights(values, unit) ==
    Rat(Sum([v \in DOMAIN values |-> values[v] * scan_weights(v)], DOMAIN values),
        unit * 100)

\* np.average(values, weights=weights) over the views of the dict; `values`
\* maps each present view to an integer in 1/unit
np_average(values, unit) ==
    Rat(Sum([v \in DOMAIN values |-> values[v] * scan_weights(v)], DOMAIN values),
        unit * Sum([v \in DOMAIN values |-> scan_weights(v)], DOMAIN values))

fusion_confidence_uncapped(weighted_confidence) ==
    RatMul(weighted_confidence, Rat(11, 10))

\* min(weighted_confidence * 1.1, 1.0)
fusion_confidence(weighted_confidence) ==
    IF RatGT(RatMul(weighted_confidence, Rat(11, 10)), Rat(1, 1))
    THEN Rat(1, 1)
    ELSE RatMul(weighted_confidence, Rat(11, 10))

\* lines 322-358: the combined_measurements dict.  With no view np.average
\* raises ZeroDivisionError (the weights sum to zero).  The remainder of the
\* function recomputes the WHO metrics from the fused height and weight and
\* wraps the fused values unchanged into a PredictionResult.
combine_multi_scan_results(scan_results) ==
    IF DOMAIN scan_results = {} THEN Raise("ZeroDivisionError")
    ELSE Return([m \in FusedMeasurements |->
            [value |-> np_average([v \in DOMAIN scan_results |->
                                      scan_results[v][m].value], 10),
             confidence |-> fusion_confidence(
                 np_average([v \in DOMAIN scan_results |->
                                scan_results[v][m].confidence], 100))]])

---------------------------------------------------------------------------
(* Measurement builder: utils/measurement_calculator.py.  A pose result is  *)
(* a dict with the optional keys pose_present, quality_score (hundredths)   *)
(* and keypoints.                                                           *)

MaxFrames == 3          \* longest pose_results list

\* frame qualities in hundredths: both sides of the 0.7 threshold
QualityGrid == {0, 50, 70, 71, 100}

\* pose dicts as _assess_measurement_quality reads them: a quality_score,
\* or no such key
QualityPoses == {[quality_score |-> q] : q \in QualityGrid} \cup {<<>>}

QualityPoseLists == UNION {[1 .. n -> QualityPoses] : n \in 0 .. MaxFrames}

\* a flat 0.1 whenever fewer than three poses are given
quantity_penalty_flat(n) == IF n < 3 THEN Rat(1, 10) ELSE Rat(0, 1)

\* 0.1 * (3 - len(pose_results)) below three poses, else 0.0
quantity_penalty(n) == IF n < 3 THEN Rat(3 - n, 10) ELSE Rat(0, 1)

\* _assess_measurement_quality.  The except branch (0.5) needs a
\* quality_score that is not a number and is not modelled.
assess_measurement_quality(pose_results) ==
    IF Len(pose_results) = 0 THEN Rat(0, 1)
    ELSE LET quality_scores == [i \in DOMAIN pose_results |->
                                   get(pose_results[i], "quality_score", 0)]
             avg_quality == Rat(Sum(quality_scores, DOMAIN quality_scores),
                                100 * Len(quality_scores))
             good_poses == Cardinality({i \in DOMAIN quality_scores :
                                           quality_scores[i] > 70})
             consistency_bonus == RatMin(Rat(good_poses, 5), Rat(2, 10))
             final_quality == RatAdd(RatAdd(avg_quality, consistency_bonus),
                                     RatNeg(quantity_penalty(Len(pose_results))))
         IN  RatMax(Rat(0, 1), RatMin(final_quality, Rat(1, 1)))

---------------------------------------------------------------------------
(* Measurement builder, continued: calculate_measurements and the helpers  *)
(* it calls.  A keypoint is <<x, y, z, visibility>> with x, y in pixels and *)
(* z, visibility in hundredths; keypoints[i] of the code is the (i+1)-th    *)
(* element here.  Measurement dicts map names to exact fractions.           *)

MaxDegraded == 2        \* landmarks degraded together in a single frame

\* MediaPipe indices the builder reads
UsedLandmarks == {0, 7, 8, 11, 12, 13, 15, 23, 24, 25, 27, 28}

\* a child standing upright, every landmark detected and well visible
BasePoint(i) ==
    CASE i = 0  -> <<100, 20, -5, 95>>
      [] i = 7  -> <<112, 20, -2, 90>>
      [] i = 8  -> <<88, 20, -2, 60>>
      [] i = 11 -> <<120, 60, -15, 90>>
      [] i = 12 -> <<80, 60, -12, 80>>
      [] i = 13 -> <<138, 84, 0, 90>>
      [] i = 15 -> <<145, 108, 0, 90>>
      [] i = 23 -> <<120, 130, 0, 90>>
      [] i = 24 -> <<90, 130, 0, 90>>
      [] i = 25 -> <<120, 170, 0, 90>>
      [] i = 27 -> <<120, 205, 0, 90>>
      [] i = 28 -> <<90, 206, 0, 90>>
      [] OTHER  -> <<100, 100, 0, 90>>

\* the 33 MediaPipe landmarks, the body k times as large in the image
Skeleton(k) == [j \in 1 .. 33 |->
                   <<k * BasePoint(j - 1)[1], k * BasePoint(j - 1)[2],
                     BasePoint(j - 1)[3], BasePoint(j - 1)[4]>>]

\* the 17 COCO keypoints the repository's pose estimator emits
CocoSkeleton == [j \in 1 .. 17 |-> <<100, 10 * j, 0, 90>>]

\* the landmarks of D reported with low visibility, coordinates kept
LowVisibility(keypoints, D) ==
    [j \in DOMAIN keypoints |->
        IF (j - 1) \in D
        THEN <<keypoints[j][1], keypoints[j][2], keypoints[j][3], 10>>
        ELSE keypoints[j]]

\* the landmarks of D not detected: all components zero
Undetected(keypoints, D) ==
    [j \in DOMAIN keypoints |-> IF (j - 1) \in D THEN <<0, 0, 0, 0>> ELSE keypoints[j]]

Frame(quality, keypoints) ==
    [pose_present |-> TRUE, quality_score |-> quality, keypoints |-> keypoints]

\* single-frame inputs: one good frame with up to MaxDegraded landmarks
\* degraded in one of the two ways
DegradedSets == {D \in SUBSET UsedLandmarks : Cardinality(D) <= MaxDegraded}

LandmarkScenarios ==
    {<<Frame(90, LowVisibility(Skeleton(1), D))>> : D \in DegradedSets}
        \cup {<<Frame(90, Undetected(Skeleton(1), D))>> : D \in DegradedSets}

\* the frames a sequence is drawn from
FrameKinds ==
    {Frame(90, Skeleton(1)),
     Frame(65, Skeleton(2)),
     Frame(30, Skeleton(3)),
     Frame(80, CocoSkeleton),
     [pose_present |-> TRUE],
     [pose_present |-> FALSE, quality_score |-> 0, keypoints |-> <<>>],
     [quality_score |-> 90, keypoints |-> Skeleton(1)]}

FrameSequences == UNION {[1 .. n -> FrameKinds] : n \in 0 .. MaxFrames}

MaxLowFrames == 4       \* longest sequence without a frame above quality 0.6

\* frames of quality at most 0.6, one of them without keypoints
LowQualityFrameKinds ==
    {Frame(30, Skeleton(3)), Frame(50, Skeleton(1)), [pose_present |-> TRUE]}

LowQualitySequences == UNION {[1 .. n -> LowQualityFrameKinds] : n \in 1 .. MaxLowFrames}

ScanTypes == {"front", "back", "side_left", "side_right"}

\* one age in each band of _apply_age_corrections
AgeBands == {6, 18, 30}

kp(keypoints, i) == keypoints[i + 1]

\* np.linalg.norm of the difference of two points' [:2]; the coordinates
\* used make every distance a whole number of pixels
norm(a, b) ==
    LET sq == (a[1] - b[1]) * (a[1] - b[1]) + (a[2] - b[2]) * (a[2] - b[2])
    IN  CHOOSE r \in 0 .. sq : r * r = sq

\* dict.update: the entries of `new` added to, or replacing, those of `d`
update(d, new) == new @@ d

\* {key: value} if cond, else {}
entry(cond, key, value) == IF cond THEN key :> value ELSE <<>>

RECURSIVE Flatten(_)
Flatten(seqs) == IF seqs = <<>> THEN <<>> ELSE Head(seqs) \o Flatten(Tail(seqs))

\* sorted(pose_results, key=quality_score, reverse=True): stable, equal
\* keys keep their input order
sorted_by_quality(pose_results) ==
    LET q(i) == get(pose_results[i], "quality_score", 0)
        rank(i) == Cardinality({j \in DOMAIN pose_results : q(j) > q(i)})
                   + Cardinality({j \in DOMAIN pose_results : j < i /\ q(j) = q(i)}) + 1
    IN  [k \in DOMAIN pose_results |->
            pose_results[CHOOSE i \in DOMAIN pose_results : rank(i) = k]]

\* np.median of a non-empty list of fractions
median(values) ==
    LET n == Len(values)
        rank(i) == Cardinality({j \in 1 .. n : RatGT(values[i], values[j])})
                   + Cardinality({j \in 1 .. n : j < i /\ values[j] = values[i]}) + 1
        at(k) == values[CHOOSE i \in 1 .. n : rank(i) = k]
    IN  IF n % 2 = 1 THEN at((n + 1) \div 2)
        ELSE RatMul(RatAdd(at(n \div 2), at(n \div 2 + 1)), Rat(1, 2))

\* the pose the frontal and lateral loops use: the first of the five best
\* whose keypoints are not empty (the loop breaks after it)
best_pose(pose_results) ==
    LET best_poses == SubSeq(sorted_by_quality(pose_results), 1,
                             IF Len(pose_results) < 5 THEN Len(pose_results) ELSE 5)
        usable == {k \in DOMAIN best_poses : Len(get(best_poses[k], "keypoints", <<>>)) > 0}
    IN  IF usable = {} THEN None
        ELSE <<best_poses[CHOOSE k \in usable : \A l \in usable : k <= l]>>

\* _calculate_frontal_measurements: only the coordinates are tested
calculate_frontal_measurements(pose_results, ratio) ==
    LET best == best_pose(pose_results)
    IN  IF best = None \/ Len(best[1].keypoints) <= 28 THEN <<>>
        ELSE LET keypoints == best[1].keypoints
                 left_shoulder == kp(keypoints, 11)
                 right_shoulder == kp(keypoints, 12)
                 left_hip == kp(keypoints, 23)
                 right_hip == kp(keypoints, 24)
                 nose == kp(keypoints, 0)
                 left_ankle == kp(keypoints, 27)
                 right_ankle == kp(keypoints, 28)
                 ankle_y == IF left_ankle[2] > 0 /\ right_ankle[2] > 0
                            THEN Rat(left_ankle[2] + right_ankle[2], 2)
                            ELSE IF left_ankle[2] > 0 THEN Rat(left_ankle[2], 1)
                            ELSE Rat(right_ankle[2], 1)
                 height_px == LET diff == RatAdd(ankle_y, Rat(-nose[2], 1))
                              IN  [n |-> Abs(diff.n), d |-> diff.d]
             IN  update(update(
                     entry(left_shoulder[1] > 0 /\ right_shoulder[1] > 0, "shoulder_width",
                           RatMul(Rat(norm(left_shoulder, right_shoulder), 1), ratio)),
                     entry(left_hip[1] > 0 /\ right_hip[1] > 0, "hip_width",
                           RatMul(Rat(norm(left_hip, right_hip), 1), ratio))),
                     entry(nose[2] > 0 /\ (left_ankle[2] > 0 \/ right_ankle[2] > 0),
                           "head_to_ground_distance", RatMul(height_px, ratio)))

\* np.pi, as the rational 355/113
pi == Rat(355, 113)

\* _calculate_lateral_measurements: visibility above 0.5 is required
calculate_lateral_measurements(pose_results, ratio) ==
    LET best == best_pose(pose_results)
    IN  IF best = None \/ Len(best[1].keypoints) <= 28 THEN <<>>
        ELSE LET keypoints == best[1].keypoints
                 left_shoulder == kp(keypoints, 11)
                 right_shoulder == kp(keypoints, 12)
                 visible_shoulder == IF left_shoulder[4] > right_shoulder[4]
                                     THEN left_shoulder ELSE right_shoulder
                 nose == kp(keypoints, 0)
                 left_ear == kp(keypoints, 7)
                 right_ear == kp(keypoints, 8)
                 visible_ear == IF left_ear[4] > right_ear[4] THEN left_ear ELSE right_ear
             IN  update(
                     entry(visible_shoulder[4] > 50, "body_depth",
                           Rat(Abs(visible_shoulder[3]) * 100, 100)),
                     entry(nose[4] > 50 /\ visible_ear[4] > 50, "head_circumference_ratio",
                           RatMul(RatMul(Rat(Abs(nose[1] - visible_ear[1]), 1), ratio), pi)))

\* the limb lengths one pose contributes, each a list of zero or one value
arm_length_of(pose, ratio) ==
    LET keypoints == get(pose, "keypoints", <<>>)
    IN  IF Len(keypoints) <= 28 THEN <<>>
        ELSE LET left_shoulder == kp(keypoints, 11)
                 left_elbow == kp(keypoints, 13)
                 left_wrist == kp(keypoints, 15)
             IN  IF left_shoulder[1] > 0 /\ left_elbow[1] > 0 /\ left_wrist[1] > 0
                 THEN <<RatMul(Rat(norm(left_shoulder, left_elbow)
                                   + norm(left_elbow, left_wrist), 1), ratio)>>
                 ELSE <<>>

leg_length_of(pose, ratio) ==
    LET keypoints == get(pose, "keypoints", <<>>)
    IN  IF Len(keypoints) <= 28 THEN <<>>
        ELSE LET left_hip == kp(keypoints, 23)
                 left_knee == kp(keypoints, 25)
                 left_ankle == kp(keypoints, 27)
             IN  IF left_hip[1] > 0 /\ left_knee[1] > 0 /\ left_ankle[1] > 0
                 THEN <<RatMul(Rat(norm(left_hip, left_knee)
                                   + norm(left_knee, left_ankle), 1), ratio)>>
                 ELSE <<>>

torso_length_of(pose, ratio) ==
    LET keypoints == get(pose, "keypoints", <<>>)
    IN  IF Len(keypoints) <= 28 THEN <<>>
        ELSE LET left_shoulder == kp(keypoints, 11)
                 left_hip == kp(keypoints, 23)
             IN  IF left_shoulder[1] > 0 /\ left_hip[1] > 0
                 THEN <<RatMul(Rat(norm(left_shoulder, left_hip), 1), ratio)>>
                 ELSE <<>>

IsGoodPose(p) == get(p, "quality_score", 0) > 60

\* _calculate_common_measurements: the poses with quality above 0.6, or
\* failing any the first three of the list; the median over them
calculate_common_measurements(pose_results, ratio) ==
    LET above == SelectSeq(pose_results, IsGoodPose)
        good_poses == IF above # <<>> THEN above
                      ELSE SubSeq(pose_results, 1,
                                  IF Len(pose_results) < 3 THEN Len(pose_results) ELSE 3)
        arm_lengths == Flatten([i \in DOMAIN good_poses |-> arm_length_of(good_poses[i], ratio)])
        leg_lengths == Flatten([i \in DOMAIN good_poses |-> leg_length_of(good_poses[i], ratio)])
        torso_lengths ==
            Flatten([i \in DOMAIN good_poses |-> torso_length_of(good_poses[i], ratio)])
    IN  update(update(
            entry(arm_lengths # <<>>, "arm_length", median(arm_lengths)),
            entry(leg_lengths # <<>>, "leg_length", median(leg_lengths))),
            entry(torso_lengths # <<>>, "torso_length", median(torso_lengths)))

\* _apply_age_corrections
apply_age_corrections(measurements, age_months) ==
    LET head_scale == IF age_months < 12 THEN Rat(12, 10)
                      ELSE IF age_months < 24 THEN Rat(11, 10) ELSE Rat(1, 1)
        limb_scale == IF age_months < 12 THEN Rat(9, 10)
                      ELSE IF age_months < 24 THEN Rat(95, 100) ELSE Rat(1, 1)
    IN  [key \in DOMAIN measurements |->
            IF key = "head_circumference_ratio" THEN RatMul(measurements[key], head_scale)
            ELSE IF key \in {"arm_length", "leg_length"}
                 THEN RatMul(measurements[key], limb_scale)
            ELSE measurements[key]]

IsPosePresent(p) == get(p, "pose_present", FALSE)

\* the scan quality assessed over all frames given, present or not
calculate_measurements_quality_unfiltered(pose_results, scan_type, age_months, ratio) ==
    LET valid_poses == SelectSeq(pose_results, IsPosePresent)
        by_view == IF scan_type \in {"front", "back"}
                   THEN calculate_frontal_measurements(valid_poses, ratio)
                   ELSE IF scan_type \in {"side_left", "side_right"}
                        THEN calculate_lateral_measurements(valid_poses, ratio)
                        ELSE <<>>
        measurements == update(by_view, calculate_common_measurements(valid_poses, ratio))
    IN  IF pose_results = <<>> \/ valid_poses = <<>> THEN <<>>
        ELSE update(apply_age_corrections(measurements, age_months),
                    "measurement_quality" :> assess_measurement_quality(pose_results))

\* calculate_measurements.  Every frame is a dict of well-formed values, so
\* the outer except branch (which also returns {}) is not entered.
calculate_measurements(pose_results, scan_type, age_months, ratio) ==
    LET valid_poses == SelectSeq(pose_results, IsPosePresent)
        by_view == IF scan_type \in {"front", "back"}
                   THEN calculate_frontal_measurements(valid_poses, ratio)
                   ELSE IF scan_type \in {"side_left", "side_right"}
                        THEN calculate_lateral_measurements(valid_poses, ratio)
                        ELSE <<>>
        measurements == update(by_view, calculate_common_measurements(valid_poses, ratio))
    IN  IF pose_results = <<>> \/ valid_poses = <<>> THEN <<>>
        ELSE update(apply_age_corrections(measurements, age_months),
                    "measurement_quality" :> assess_measurement_quality(valid_poses))

---------------------------------------------------------------------------
(* Key-frame selection and temporal smoothing: utils/video_processor.py.    *)
(* Frame scores are in thousandths (quality in hundredths times 10, or      *)
(* times 12 with the bonus).                                                *)

MaxKeyFrames == 3       \* longest list of freely chosen frames to rank

AllVisibleSeventeen == [j \in 1 .. 17 |-> 90]
NoneVisibleSeventeen == [j \in 1 .. 17 |-> 10]
TwentyVisibleOfThirtyThree == [j \in 1 .. 33 |-> IF j <= 20 THEN 90 ELSE 10]

KeyFrameKinds ==
    {[quality_score |-> 80, visibility_scores |-> AllVisibleSeventeen],
     [quality_score |-> 90, visibility_scores |-> NoneVisibleSeventeen],
     [quality_score |-> 90],
     [quality_score |-> 70, visibility_scores |-> TwentyVisibleOfThirtyThree],
     <<>>}

\* eleven frames, one more than the number of key frames kept, qualities in
\* three different orders
LongKeyFrameLists == {[i \in 1 .. 11 |-> [quality_score |-> 5 * ((i * k) % 11)]] : k \in 1 .. 3}

KeyFrameLists ==
    UNION {[1 .. n -> KeyFrameKinds] : n \in 0 .. MaxKeyFrames} \cup LongKeyFrameLists

\* the score of one frame: quality, times 1.2 when at least 20 of the
\* visibility scores exceed 0.5
frame_score(pose_result) ==
    LET score == get(pose_result, "quality_score", 0)
    IN  IF "visibility_scores" \in DOMAIN pose_result
        THEN LET visibility == pose_result.visibility_scores
                 key_landmarks_visible ==
                     Cardinality({j \in DOMAIN visibility : visibility[j] > 50})
             IN  IF key_landmarks_visible >= 20 THEN score * 12 ELSE score * 10
        ELSE score * 10

\* extract_key_frames: the (0-based) indices of the ten best-scored frames,
\* best first; list.sort is stable, equal scores keep their input order
extract_key_frames(pose_results) ==
    LET n == Len(pose_results)
        sc(i) == frame_score(pose_results[i])
        rank(i) == Cardinality({j \in 1 .. n : sc(j) > sc(i)})
                   + Cardinality({j \in 1 .. n : j < i /\ sc(j) = sc(i)}) + 1
    IN  [k \in 1 .. (IF n < 10 THEN n ELSE 10) |-> (CHOOSE i \in 1 .. n : rank(i) = k) - 1]

MaxSmoothFrames == 5    \* longest sequence to smooth

\* keypoint lists of one shape, as one estimator emits them: two points of
\* <<x, y, z, confidence>>; coordinates in half pixels so that the median
\* of an even number of frames is again whole
SmoothKeypoints ==
    {<<<<200, 40, 0, 180>>, <<240, 120, 0, 180>>>>,
     <<<<208, 44, 0, 160>>, <<236, 128, 0, 140>>>>}

SmoothFrameKinds ==
    {[pose_present |-> TRUE, keypoints |-> k] : k \in SmoothKeypoints}
        \cup {[pose_present |-> TRUE, keypoints |-> <<>>],
              [pose_present |-> FALSE, keypoints |-> <<<<200, 40, 0, 180>>, <<240, 120, 0, 180>>>>],
              [quality_score |-> 0]}

SmoothSequences == UNION {[1 .. n -> SmoothFrameKinds] : n \in 0 .. MaxSmoothFrames}

\* np.median over a non-empty list of whole numbers whose pairwise means
\* are whole
median_of_values(values) ==
    LET n == Len(values)
        rank(i) == Cardinality({j \in 1 .. n : values[j] < values[i]})
                   + Cardinality({j \in 1 .. n : j < i /\ values[j] = values[i]}) + 1
        at(k) == values[CHOOSE i \in 1 .. n : rank(i) = k]
    IN  IF n % 2 = 1 THEN at((n + 1) \div 2)
        ELSE (at(n \div 2) + at(n \div 2 + 1)) \div 2

\* np.median(np.stack(valid_keypoints, axis=0), axis=0)
median_keypoints(valid_keypoints) ==
    [r \in DOMAIN valid_keypoints[1] |->
        [c \in DOMAIN valid_keypoints[1][r] |->
            median_of_values([f \in DOMAIN valid_keypoints |-> valid_keypoints[f][r][c]])]]

\* the indices (1-based) of the smoothing window of frame i
smoothing_window(i, n) ==
    {j \in 1 .. n : j >= i - 2 /\ j <= i + 2}

\* the keypoints of the present frames of a window, in order
window_keypoints(pose_results, i) ==
    LET W == {j \in smoothing_window(i, Len(pose_results)) :
                 /\ get(pose_results[j], "pose_present", FALSE)
                 /\ get(pose_results[j], "keypoints", <<>>) # <<>>}
        nth(k) == CHOOSE j \in W : Cardinality({l \in W : l < j}) = k - 1
    IN  [k \in 1 .. Cardinality(W) |-> pose_results[nth(k)].keypoints]

\* is frame i replaced by a smoothed copy?
is_smoothed(pose_results, i) ==
    /\ get(pose_results[i], "pose_present", FALSE)
    /\ Len(window_keypoints(pose_results, i)) >= 2

smoothed_frame(pose_results, i) ==
    IF is_smoothed(pose_results, i)
    THEN ("keypoints" :> median_keypoints(window_keypoints(pose_results, i)))
             @@ pose_results[i]
    ELSE pose_results[i]

\* the smoothed keypoints stored into the input frame itself instead of a
\* copy (the windows still read the frames as they were)
smooth_pose_sequence_in_place(pose_results) ==
    IF Len(pose_results) < 3
    THEN [result |-> pose_results, input |-> pose_results]
    ELSE [result |-> [i \in DOMAIN pose_results |-> smoothed_frame(pose_results, i)],
          input  |-> [i \in DOMAIN pose_results |-> smoothed_frame(pose_results, i)]]

\* smooth_pose_sequence: the returned list, and the caller's list as it is
\* after the call (pose_result.copy() leaves the input frames untouched)
smooth_pose_sequence(pose_results) ==
    IF Len(pose_results) < 3
    THEN [result |-> pose_results, input |-> pose_results]
    ELSE [result |-> [i \in DOMAIN pose_results |-> smoothed_frame(pose_results, i)],
          input  |-> pose_results]

---------------------------------------------------------------------------
(* The state machine.  A run either evaluates one call of a stateless      *)
(* function on arguments drawn by Init, or performs a sequence of          *)
(* calibrations on a freshly constructed MeasurementCalculator; the        *)
(* stateless functions read and write none of the calculator's fields.     *)

\* MeasurementCalculator.__init__
InitCalculator ==
    /\ pixel_to_cm_ratio = Rat(1, 10)
    /\ focal_length = Rat(800, 1)
    /\ camera_height = Rat(15, 10)
    /\ calibrations = 0

Init ==
    /\ InitCalculator
    /\ threads = <<>>
    /\ uploads = <<>>
    /\ backend = <<>>
    /\ ret = <<>>
    /\ raised = "None"
    /\ \/ /\ pc = "call"
          /\ op = "assess_nutritional_status"
          /\ args \in [who_metrics : WhoMetrics]
       \/ /\ pc = "call"
          /\ op = "classify_nutritional_status"
          /\ args \in [z_score : ZScores, measurement_type : MeasurementTypes]
       \/ /\ pc = "call"
          /\ op = "generate_growth_recommendations"
          /\ args \in [metrics : WhoMetrics, age_months : Ages]
       \/ /\ pc = "call"
          /\ op = "get_growth_velocity"
          /\ args \in [current_measurement : Measurements,
                        previous_measurement : Measurements,
                        days_between : DayIntervals,
                        measurement_type : MeasurementTypes]
       \/ /\ pc = "call"
          /\ op = "_calculate_scale_factor"
          /\ args \in [landmarks : LandmarkLists, reference_size_cm : ReferenceSizes]
       \/ /\ pc = "call"
          /\ op = "_z_score_to_percentile"
          /\ args \in [z_score : ZScores]
       \/ /\ pc = "call"
          /\ op = "_approximate_height_for_age"
          /\ args \in [height_cm : HeightsTenths, age_months : ChildAges, gender : Genders]
       \/ /\ pc = "call"
          /\ op = "_approximate_weight_for_age"
          /\ args \in [weight_kg : WeightsTenths, age_months : ChildAges, gender : Genders]
       \/ /\ pc = "call"
          /\ op = "_assess_measurement_quality"
          /\ args \in [pose_results : QualityPoseLists]
       \/ /\ pc = "call"
          /\ op = "calculate_measurements"
          /\ args \in [pose_results : LandmarkScenarios \cup FrameSequences
                                         \cup LowQualitySequences,
                        scan_type : ScanTypes, age_months : AgeBands]
       \/ /\ pc = "call"
          /\ op = "extract_key_frames"
          /\ args \in [pose_results : KeyFrameLists]
       \/ /\ pc = "call"
          /\ op = "smooth_pose_sequence"
          /\ args \in [pose_results : SmoothSequences]
       \/ /\ pc = "call"
          /\ op = "combine_multi_scan_results"
          /\ args \in [scan_results : ScanResults]
       \/ /\ pc = "idle"
          /\ op = "__init__"
          /\ args = <<>>

calculator == <<pixel_to_cm_ratio, focal_length, camera_height, calibrations>>

CallAssessNutritionalStatus ==
    /\ pc = "call" /\ op = "assess_nutritional_status"
    /\ ret' = assess_nutritional_status(args.who_metrics)
    /\ pc' = "done"
    /\ UNCHANGED <<op, args, raised, calculator, threads, uploads, backend>>

CallClassifyNutritionalStatus ==
    /\ pc = "call" /\ op = "classify_nutritional_status"
    /\ ret' = classify_nutritional_status(args.z_score, args.measurement_type)
    /\ pc' = "done"
    /\ UNCHANGED <<op, args, raised, calculator, threads, uploads, backend>>

CallGenerateGrowthRecommendations ==
    /\ pc = "call" /\ op = "generate_growth_recommendations"
    /\ ret' = generate_growth_recommendations(args.metrics, args.age_months)
    /\ pc' = "done"
    /\ UNCHANGED <<op, args, raised, calculator, threads, uploads, backend>>

CallGetGrowthVelocity ==
    /\ pc = "call" /\ op = "get_growth_velocity"
    /\ ret' = get_growth_velocity(args.current_measurement, args.previous_measurement,
                                  args.days_between, args.measurement_type)
    /\ pc' = "done"
    /\ UNCHANGED <<op, args, raised, calculator, threads, uploads, backend>>

CallCalculateScaleFactor ==
    /\ pc = "call" /\ op = "_calculate_scale_factor"
    /\ LET outcome == calculate_scale_factor(args.landmarks, args.reference_size_cm)
       IN  /\ ret' = outcome.value
           /\ raised' = outcome.raised
    /\ pc' = "done"
    /\ UNCHANGED <<op, args, calculator, threads, uploads, backend>>

CallZScoreToPercentile ==
    /\ pc = "call" /\ op = "_z_score_to_percentile"
    /\ ret' = <<z_score_to_percentile(Rat(args.z_score, 10))>>
    /\ raised' = "None"
    /\ pc' = "done"
    /\ UNCHANGED <<op, args, calculator, threads, uploads, backend>>

CallApproximateHeightForAge ==
    /\ pc = "call" /\ op = "_approximate_height_for_age"
    /\ ret' = <<approximate_height_for_age(Rat(args.height_cm, 10), args.age_months,
                                           args.gender)>>
    /\ raised' = "None"
    /\ pc' = "done"
    /\ UNCHANGED <<op, args, calculator, threads, uploads, backend>>

CallApproximateWeightForAge ==
    /\ pc = "call" /\ op = "_approximate_weight_for_age"
    /\ ret' = <<approximate_weight_for_age(Rat(args.weight_kg, 10), args.age_months,
                                           args.gender)>>
    /\ raised' = "None"
    /\ pc' = "done"
    /\ UNCHANGED <<op, args, calculator, threads, uploads, backend>>

CallAssessMeasurementQuality ==
    /\ pc = "call" /\ op = "_assess_measurement_quality"
    /\ ret' = <<assess_measurement_quality(args.pose_results)>>
    /\ raised' = "None"
    /\ pc' = "done"
    /\ UNCHANGED <<op, args, calculator, threads, uploads, backend>>

CallCalculateMeasurements ==
    /\ pc = "call" /\ op = "calculate_measurements"
    /\ ret' = <<calculate_measurements(args.pose_results, args.scan_type,
                                       args.age_months, pixel_to_cm_ratio)>>
    /\ raised' = "None"
    /\ pc' = "done"
    /\ UNCHANGED <<op, args, calculator, threads, uploads, backend>>

CallExtractKeyFrames ==
    /\ pc = "call" /\ op = "extract_key_frames"
    /\ ret' = <<extract_key_frames(args.pose_results)>>
    /\ raised' = "None"
    /\ pc' = "done"
    /\ UNCHANGED <<op, args, calculator, threads, uploads, backend>>

\* ret holds the returned list and the input list as the call left it;
\* args keeps the input as it was before the call
CallSmoothPoseSequence ==
    /\ pc = "call" /\ op = "smooth_pose_sequence"
    /\ LET outcome == smooth_pose_sequence(args.pose_results)
       IN  ret' = <<outcome.result, outcome.input>>
    /\ raised' = "None"
    /\ pc' = "done"
    /\ UNCHANGED <<op, args, calculator, threads, uploads, backend>>

CallCombineMultiScanResults ==
    /\ pc = "call" /\ op = "combine_multi_scan_results"
    /\ LET outcome == combine_multi_scan_results(args.scan_results)
       IN  /\ ret' = outcome.value
           /\ raised' = outcome.raised
    /\ pc' = "done"
    /\ UNCHANGED <<op, args, calculator, threads, uploads, backend>>

CallCalibrateScale ==
    /\ pc = "idle"
    /\ calibrations < MaxCalibrations
    /\ \E known_measurement \in -1 .. MaxKnown, measured_pixels \in -1 .. MaxPixels :
          /\ op' = "calibrate_scale"
          /\ args' = [known_measurement |-> known_measurement,
                      measured_pixels |-> measured_pixels,
                      ratio_before |-> pixel_to_cm_ratio]
          /\ pixel_to_cm_ratio' =
                 calibrate_scale(pixel_to_cm_ratio, known_measurement, measured_pixels)
          /\ ret' = <<pixel_to_cm_ratio'>>
    /\ calibrations' = calibrations + 1
    /\ UNCHANGED <<pc, raised, focal_length, camera_height, threads, uploads, backend>>

Next ==
    \/ CallAssessNutritionalStatus
    \/ CallClassifyNutritionalStatus
    \/ CallGenerateGrowthRecommendations
    \/ CallGetGrowthVelocity
    \/ CallCalculateScaleFactor
    \/ CallZScoreToPercentile
    \/ CallApproximateHeightForAge
    \/ CallApproximateWeightForAge
    \/ CallAssessMeasurementQuality
    \/ CallCalculateMeasurements
    \/ CallExtractKeyFrames
    \/ CallSmoothPoseSequence
    \/ CallCombineMultiScanResults
    \/ CallCalibrateScale

Spec == Init /\ [][Next]_vars

---------------------------------------------------------------------------
(* Concurrent calibration.  main.py:53 constructs one MeasurementCalculator *)
(* for the whole process; calibrate_scale takes no lock, so calls made from *)
(* several threads interleave between the read of self.pixel_to_cm_ratio    *)
(* and the store of line 311, and between the store and the read of the     *)
(* return statement.                                                        *)

MaxThreads == 2         \* threads calling calibrate_scale at once

Threads == 1 .. MaxThreads

ThreadArgs == [known_measurement : -1 .. MaxKnown, measured_pixels : -1 .. MaxPixels]

InitThreads ==
    /\ InitCalculator
    /\ pc = "threads"
    /\ op = "calibrate_scale"
    /\ args \in [Threads -> ThreadArgs]
    /\ ret = <<>>
    /\ raised = "None"
    /\ threads = [t \in Threads |-> [pc |-> "start", new_ratio |-> None,
                                     loaded |-> None, returned |-> None]]
    /\ uploads = <<>>
    /\ backend = <<>>

\* line 308-309: the test, and the division into the local new_ratio
ThreadStart(t) ==
    /\ threads[t].pc = "start"
    /\ threads' = [threads EXCEPT ![t] =
          IF args[t].measured_pixels > 0
          THEN [@ EXCEPT !.pc = "read",
                         !.new_ratio = <<Rat(args[t].known_measurement,
                                             args[t].measured_pixels)>>]
          ELSE [@ EXCEPT !.pc = "return"]]
    /\ calibrations' = calibrations + 1
    /\ UNCHANGED <<pc, op, args, ret, raised, pixel_to_cm_ratio, focal_length,
                   camera_height, uploads, backend>>

\* line 311, right-hand side: self.pixel_to_cm_ratio is read
ThreadRead(t) ==
    /\ threads[t].pc = "read"
    /\ threads' = [threads EXCEPT ![t] =
          [@ EXCEPT !.pc = "write", !.loaded = <<pixel_to_cm_ratio>>]]
    /\ UNCHANGED <<pc, op, args, ret, raised, calculator, uploads, backend>>

\* line 311, the store
ThreadWrite(t) ==
    /\ threads[t].pc = "write"
    /\ pixel_to_cm_ratio' =
          RatAdd(RatMul(Rat(7, 10), threads[t].loaded[1]),
                 RatMul(Rat(3, 10), threads[t].new_ratio[1]))
    /\ threads' = [threads EXCEPT ![t] = [@ EXCEPT !.pc = "return"]]
    /\ UNCHANGED <<pc, op, args, ret, raised, focal_length, camera_height,
                   calibrations, uploads, backend>>

\* line 313 / 315: return self.pixel_to_cm_ratio
ThreadReturn(t) ==
    /\ threads[t].pc = "return"
    /\ threads' = [threads EXCEPT ![t] =
          [@ EXCEPT !.pc = "done", !.returned = <<pixel_to_cm_ratio>>]]
    /\ UNCHANGED <<pc, op, args, ret, raised, calculator, uploads, backend>>

NextThreads ==
    \E t \in Threads :
        \/ ThreadStart(t)
        \/ ThreadRead(t)
        \/ ThreadWrite(t)
        \/ ThreadReturn(t)

SpecThreads == InitThreads /\ [][NextThreads]_vars

---------------------------------------------------------------------------
(* The upload handlers of the ML service: main.py, predict_from_video and  *)
(* predict_from_multiple_scans, and the background task cleanup_temp_file. *)
(* Each handler is one step: the files it wrote, the cleanup tasks it      *)
(* registered and the status it answered with.  A temporary path is        *)
(* <<prefix, filename>>: "/tmp/{filename}" has the empty prefix,           *)
(* "/tmp/{scan_type}_{filename}" the scan type.                            *)

MaxRequests == 2        \* requests handled in one run

Filenames == {"a.mp4", "b.mp4"}

ContentTypes == {"video/mp4", "image/png"}

\* metadata: ScanMetadata = None
MetadataValues == {None, <<"metadata">>}

\* the order of the `videos` dict of predict_from_multiple_scans
ScanOrder == <<"front", "back", "side_left", "side_right">>

InitUploads ==
    /\ InitCalculator
    /\ pc = "uploads"
    /\ op = "None"
    /\ args = <<>>
    /\ ret = <<>>
    /\ raised = "None"
    /\ threads = <<>>
    /\ backend = <<>>
    /\ uploads = [on_disk |-> {}, background_tasks |-> {}, requests |-> 0,
                  request |-> [handler |-> "None", written |-> {}, registered |-> {},
                               status |-> 0]]

\* process_video_for_prediction raises when the video cannot be read, or
\* on metadata.scan_type when no metadata was sent
processing_raises(readable, metadata) == ~readable \/ metadata = None

\* predict_from_video.  An HTTPException raised inside the try block is an
\* Exception: the handler's own except clause turns the 400 into a 500.
predict_from_video(video, metadata) ==
    IF video.content_type \notin {"video/mp4"}
    THEN [written |-> {}, registered |-> {}, status |-> 500]
    ELSE LET temp_video_path == <<"", video.filename>>
         IN  IF processing_raises(video.readable, metadata)
             THEN [written |-> {temp_video_path}, registered |-> {}, status |-> 500]
             ELSE [written |-> {temp_video_path}, registered |-> {temp_video_path},
                   status |-> 200]

\* predict_from_multiple_scans: the videos are saved and processed in dict
\* order; the first that cannot be read ends the loop with its file
\* written.  Without metadata each video is processed under a default
\* ScanMetadata, and combine_multi_scan_results then raises on
\* metadata.child_age_months.
predict_from_multiple_scans(videos, metadata) ==
    LET present == {k \in DOMAIN ScanOrder : ScanOrder[k] \in DOMAIN videos}
        failing == {k \in present : ~videos[ScanOrder[k]].readable}
        reached == IF failing = {} THEN present
                   ELSE {k \in present : \A f \in failing : k <= f}
        temp_files == {<<ScanOrder[k], videos[ScanOrder[k]].filename>> : k \in reached}
    IN  IF failing # {} \/ metadata = None
        THEN [written |-> temp_files, registered |-> {}, status |-> 500]
        ELSE [written |-> temp_files, registered |-> temp_files, status |-> 200]

\* the service after a handler ended with `outcome`
after_request(handler, outcome) ==
    [on_disk |-> uploads.on_disk \cup outcome.written,
     background_tasks |-> uploads.background_tasks \cup outcome.registered,
     requests |-> uploads.requests + 1,
     request |-> [handler |-> handler, written |-> outcome.written,
                  registered |-> outcome.registered, status |-> outcome.status]]

PredictFromVideo ==
    /\ pc = "uploads"
    /\ uploads.requests < MaxRequests
    /\ \E video \in [content_type : ContentTypes, filename : Filenames, readable : BOOLEAN],
          metadata \in MetadataValues :
           uploads' = after_request("predict_from_video",
                                    predict_from_video(video, metadata))
    /\ UNCHANGED <<pc, op, args, ret, raised, calculator, threads, backend>>

\* front_video and back_video are required, the side videos optional
PredictFromMultipleScans ==
    /\ pc = "uploads"
    /\ uploads.requests < MaxRequests
    /\ \E sides \in SUBSET {"side_left", "side_right"}, filename \in Filenames,
          metadata \in MetadataValues :
           \E videos \in [{"front", "back"} \cup sides ->
                              [filename : {filename}, readable : BOOLEAN]] :
               uploads' = after_request("predict_from_multiple_scans",
                                        predict_from_multiple_scans(videos, metadata))
    /\ UNCHANGED <<pc, op, args, ret, raised, calculator, threads, backend>>

\* cleanup_temp_file, run by the framework for a registered path
CleanupTempFile ==
    /\ pc = "uploads"
    /\ \E file_path \in uploads.background_tasks :
          uploads' = [uploads EXCEPT !.on_disk = @ \ {file_path},
                                     !.background_tasks = @ \ {file_path}]
    /\ UNCHANGED <<pc, op, args, ret, raised, calculator, threads, backend>>

NextUploads ==
    \/ PredictFromVideo
    \/ PredictFromMultipleScans
    \/ CleanupTempFile

SpecUploads == InitUploads /\ [][NextUploads]_vars

---------------------------------------------------------------------------
(* backend_app: consent records and scan sessions.  `backend` holds the    *)
(* consents and scan_sessions tables (a row's id is its position), the     *)
(* clock read by datetime.utcnow(), and the last response sent.            *)

MaxConsents == 2
MaxSessions == 1
MaxClock == 1

ExpiryDates == {None} \cup {<<t>> : t \in 1..MaxClock}
ConsentIds == 1..MaxConsents

\* Consent.is_valid at clock reading `now`; a datetime is always truthy
is_valid_ignoring_withdrawal(consent, now) ==
    /\ consent.consent_given
    /\ (consent.expiry_date = None \/ consent.expiry_date[1] > now)

is_valid(consent, now) ==
    /\ consent.consent_given
    /\ consent.withdrawn_at = None
    /\ (consent.expiry_date = None \/ consent.expiry_date[1] > now)

\* Consent.is_expired
is_expired(consent, now) ==
    consent.expiry_date # None /\ consent.expiry_date[1] < now

\* validate_consent_data: the three boolean fields must all be true
validate_consent_data(data) ==
    data.consent_given /\ data.data_usage_agreed /\ data.privacy_policy_accepted

\* one consent row is on file, with or without an expiry date
InitBackend ==
    /\ InitCalculator
    /\ pc = "backend" /\ op = "None" /\ args = <<>> /\ ret = <<>> /\ raised = "None"
    /\ threads = <<>> /\ uploads = <<>>
    /\ \E consent_given \in BOOLEAN, expiry_date \in ExpiryDates :
          backend = [consents |-> <<[consent_given |-> consent_given,
                                     expiry_date |-> expiry_date,
                                     withdrawn_at |-> None]>>,
                     sessions |-> <<>>,
                     now |-> 0,
                     response |-> [handler |-> "None", status |-> 0, consent_id |-> None]]

\* POST /consent/: 400 for invalid data, else a row without expiry_date, 201
CreateConsent ==
    /\ pc = "backend"
    /\ Len(backend.consents) < MaxConsents
    /\ \E data \in [consent_given : BOOLEAN, data_usage_agreed : BOOLEAN,
                    privacy_policy_accepted : BOOLEAN] :
          IF ~validate_consent_data(data)
          THEN backend' = [backend EXCEPT !.response =
                              [handler |-> "create_consent", status |-> 400,
                               consent_id |-> None]]
          ELSE backend' = [backend EXCEPT
                              !.consents = Append(@, [consent_given |-> data.consent_given,
                                                      expiry_date |-> None,
                                                      withdrawn_at |-> None]),
                              !.response = [handler |-> "create_consent", status |-> 201,
                                            consent_id |-> <<Len(backend.consents) + 1>>]]
    /\ UNCHANGED <<pc, op, args, ret, raised, calculator, threads, uploads>>

\* Consent.withdraw_consent on a stored row
WithdrawConsent ==
    /\ pc = "backend"
    /\ \E c \in DOMAIN backend.consents :
          backend' = [backend EXCEPT
                          !.consents[c].withdrawn_at = <<backend.now>>,
                          !.response = [handler |-> "withdraw_consent", status |-> 0,
                                        consent_id |-> <<c>>]]
    /\ UNCHANGED <<pc, op, args, ret, raised, calculator, threads, uploads>>

\* time passes between requests
Tick ==
    /\ pc = "backend"
    /\ backend.now < MaxClock
    /\ backend' = [backend EXCEPT !.now = @ + 1,
                                  !.response = [handler |-> "None", status |-> 0,
                                                consent_id |-> None]]
    /\ UNCHANGED <<pc, op, args, ret, raised, calculator, threads, uploads>>

\* the status create_scan_session answers for `data`
create_scan_session_status(data) ==
    IF data.consent_id = None THEN 500
    ELSE IF data.consent_id[1] \notin DOMAIN backend.consents THEN 400
    ELSE IF ~is_valid(backend.consents[data.consent_id[1]], backend.now) THEN 400
    ELSE IF ~data.has_child_id THEN 500
    ELSE 201

\* POST /scans/session
CreateScanSession ==
    /\ pc = "backend"
    /\ \E data \in [consent_id : {None} \cup {<<c>> : c \in ConsentIds},
                    has_child_id : BOOLEAN] :
          LET status == create_scan_session_status(data)
              response == [handler |-> "create_scan_session", status |-> status,
                           consent_id |-> data.consent_id]
          IN  IF status = 201
              THEN /\ Len(backend.sessions) < MaxSessions
                   /\ backend' = [backend EXCEPT
                                     !.sessions = Append(@, [consent_id |-> data.consent_id[1],
                                                             started_at |-> backend.now]),
                                     !.response = response]
              ELSE backend' = [backend EXCEPT !.response = response]
    /\ UNCHANGED <<pc, op, args, ret, raised, calculator, threads, uploads>>

NextBackend ==
    \/ CreateConsent
    \/ WithdrawConsent
    \/ Tick
    \/ CreateScanSession

SpecBackend == InitBackend /\ [][NextBackend]_vars

---------------------------------------------------------------------------
(* Properties.                                                             *)

Returned(f) == pc = "done" /\ op = f

\* the z-score the classifier reads for a key: the dict's value, 0 if absent
ZOf(metrics, key) == IF key \in DOMAIN metrics THEN metrics[key] ELSE 0

CategoryByThreshold(z, category) ==
    /\ (z >= -10) <=> (category = "normal")
    /\ (-20 <= z /\ z < -10) <=> (category = "mild")
    /\ (-30 <= z /\ z < -20) <=> (category = "moderate")
    /\ (z < -30) <=> (category = "severe")

\* C1: the nutritional category depends only on z: z >= -1 normal,
\* -2 <= z < -1 mild, -3 <= z < -2 moderate, z < -3 severe; categorize_z_score
\* (for each of the three indicators) and classify_nutritional_status (for
\* any measurement_type) return this category.
C1_CategoryByZScore ==
    /\ Returned("classify_nutritional_status") =>
          /\ CategoryByThreshold(args.z_score, ret)
          /\ ret = categorize_z_score(args.z_score)
    /\ Returned("assess_nutritional_status") =>
          /\ CategoryByThreshold(ZOf(args.who_metrics, "height_z_score"),
                                 ret.stunting_status)
          /\ CategoryByThreshold(ZOf(args.who_metrics, "wfh_z_score"),
                                 ret.wasting_status)
          /\ CategoryByThreshold(ZOf(args.who_metrics, "weight_z_score"),
                                 ret.underweight_status)

C1_Witness ==
    /\ Returned("assess_nutritional_status")
    /\ args.who_metrics = [height_z_score |-> -10, wfh_z_score |-> -20,
                           weight_z_score |-> -30]
    /\ ret.stunting_status = "normal"
    /\ ret.wasting_status = "mild"
    /\ ret.underweight_status = "moderate"

StatusesOf(assessment) ==
    <<assessment.stunting_status, assessment.wasting_status,
      assessment.underweight_status>>

NumberWith(assessment, status) ==
    Cardinality({i \in 1 .. 3 : StatusesOf(assessment)[i] = status})

\* C2: overall_risk is critical if any status is severe; otherwise high if
\* more than one is moderate; otherwise medium if any is moderate or more
\* than one is mild; otherwise low.
C2_OverallRisk ==
    Returned("assess_nutritional_status") =>
        ret.overall_risk =
            IF NumberWith(ret, "severe") >= 1 THEN "critical"
            ELSE IF NumberWith(ret, "moderate") >= 2 THEN "high"
            ELSE IF NumberWith(ret, "moderate") = 1 \/ NumberWith(ret, "mild") >= 2
                 THEN "medium"
            ELSE "low"

C2_Witness ==
    /\ Returned("assess_nutritional_status")
    /\ NumberWith(ret, "severe") = 0
    /\ NumberWith(ret, "moderate") = 1
    /\ NumberWith(ret, "mild") = 2
    /\ ret.overall_risk = "medium"

UrgentMessages ==
    {"Urgent treatment needed for acute malnutrition",
     "Severe acute malnutrition. Emergency treatment needed."}

\* C3: whenever the weight-for-height z-score is below -3, whatever the
\* other two z-scores, the assessment has wasting_status severe and
\* overall_risk critical, and the recommendations (of the assessment and of
\* generate_growth_recommendations) hold an urgent / emergency treatment
\* message.
C3_SevereWasting ==
    /\ (Returned("assess_nutritional_status")
          /\ ZOf(args.who_metrics, "wfh_z_score") < -30) =>
          /\ ret.wasting_status = "severe"
          /\ ret.overall_risk = "critical"
          /\ \E i \in DOMAIN ret.recommendations :
                ret.recommendations[i] \in UrgentMessages
    /\ (Returned("generate_growth_recommendations")
          /\ ZOf(args.metrics, "wfh_z_score") < -30) =>
          \E i \in DOMAIN ret : ret[i] \in UrgentMessages

C3_Witness ==
    /\ Returned("assess_nutritional_status")
    /\ args.who_metrics = [height_z_score |-> 0, wfh_z_score |-> -32,
                           weight_z_score |-> 5]
    /\ ret.overall_risk = "critical"
    /\ ret.recommendations = <<"Urgent treatment needed for acute malnutrition">>

\* C4: when all three z-scores classify as normal, and when they are
\* missing from the metrics, overall_risk is low and the recommendation
\* list is the single 'Continue regular growth monitoring' message.
C4_AllNormalLowRisk ==
    (Returned("assess_nutritional_status")
       /\ \A key \in MetricKeys :
             key \in DOMAIN args.who_metrics => args.who_metrics[key] >= -10) =>
        /\ ret.overall_risk = "low"
        /\ ret.recommendations = <<"Continue regular growth monitoring">>

C4_Witness ==
    /\ Returned("assess_nutritional_status")
    /\ args.who_metrics = [height_z_score |-> -10]
    /\ ret.overall_risk = "low"
    /\ Len(ret.recommendations) = 1

ContinueMonitoringMessages ==
    {"Continue regular growth monitoring",
     "Child's growth appears normal. Continue regular monitoring."}

\* C5: when no stunting, wasting or underweight condition message is
\* triggered, the recommendation list of assess_nutritional_status and of
\* generate_growth_recommendations contains a continue-monitoring message
\* (so it is never empty), for every combination of statuses and every age.
C5_ContinueMonitoringWhenNoCondition ==
    /\ (Returned("assess_nutritional_status")
          /\ NumberWith(ret, "moderate") = 0 /\ NumberWith(ret, "severe") = 0) =>
          \E i \in DOMAIN ret.recommendations :
              ret.recommendations[i] \in ContinueMonitoringMessages
    /\ (Returned("generate_growth_recommendations")
          /\ \A key \in MetricKeys : ZOf(args.metrics, key) >= -20) =>
          \E i \in DOMAIN ret : ret[i] \in ContinueMonitoringMessages

\* C6: get_growth_velocity with days_between <= 0 returns
\* {velocity: 0, status: 'invalid_interval'} for every pair of measurements
\* and every measurement_type; no division result is produced and nothing
\* is raised.
C6_InvalidInterval ==
    (Returned("get_growth_velocity") /\ args.days_between <= 0) =>
        /\ ret = [velocity |-> [n |-> 0, d |-> 1], status |-> "invalid_interval"]
        /\ raised = "None"

C6_Witness ==
    /\ Returned("get_growth_velocity")
    /\ args.days_between = 0
    /\ args.measurement_type = "height"
    /\ args.current_measurement # args.previous_measurement
    /\ ret.status = "invalid_interval"

\* change (tenths) over days, times 30.44, compared with bound (tenths):
\* change/10/days * 3044/100 >= bound/10
MonthlyAtLeast(change, days, bound) == change * 3044 >= bound * days * 100

StatusByBounds(change, days, normal, slow) ==
    IF MonthlyAtLeast(change, days, normal) THEN "normal"
    ELSE IF MonthlyAtLeast(change, days, slow) THEN "slow"
    ELSE "very_slow"

\* C7: for days_between > 0 the velocity is (current - previous) /
\* days_between * 30.44, classified with inclusive lower bounds: height
\* >= 0.8 normal, >= 0.4 slow, else very_slow; weight >= 0.2 normal, >= 0.1
\* slow, else very_slow.
C7_VelocityClassification ==
    (Returned("get_growth_velocity") /\ args.days_between > 0
       /\ args.measurement_type \in {"height", "weight"}) =>
        LET change == args.current_measurement - args.previous_measurement
        IN  /\ ret.velocity.d > 0
            /\ ret.velocity.n * args.days_between * 1000 = change * 3044 * ret.velocity.d
            /\ ret.status =
                  IF args.measurement_type = "height"
                  THEN StatusByBounds(change, args.days_between, 8, 4)
                  ELSE StatusByBounds(change, args.days_between, 2, 1)

C7_Witness ==
    /\ Returned("get_growth_velocity")
    /\ args.measurement_type = "height"
    /\ args.days_between = 761
    /\ args.current_measurement - args.previous_measurement = 200
    /\ ret.velocity = [n |-> 4, d |-> 5]
    /\ ret.status = "normal"

\* C8: an unknown measurement / indicator type is answered with an explicit
\* 'unknown' result: get_growth_velocity with a type other than 'height' or
\* 'weight' (days_between > 0) returns velocity 0 with an unknown-type
\* status, and classify_nutritional_status with an unrecognised
\* measurement_type returns 'unknown'.
C8_UnknownTypeExplicit ==
    /\ (Returned("get_growth_velocity") /\ args.days_between > 0
          /\ args.measurement_type \notin {"height", "weight"}) =>
          /\ ret.velocity = [n |-> 0, d |-> 1]
          /\ ret.status = "unknown_type"
    /\ (Returned("classify_nutritional_status")
          /\ args.measurement_type \notin {"height", "weight", "wfh"}) =>
          ret = "unknown"

Named(landmark, name) == "name" \in DOMAIN landmark /\ landmark.name = name

LandmarkMissing(landmarks, name) ==
    \A i \in DOMAIN landmarks : ~Named(landmarks[i], name)

\* twice |left_ear.x - nose.x| is 0 for the first nose and first left_ear
ProxyDistanceZero(landmarks) ==
    \E i, j \in DOMAIN landmarks :
        /\ Named(landmarks[i], "nose")
        /\ \A k \in 1 .. (i - 1) : ~Named(landmarks[k], "nose")
        /\ Named(landmarks[j], "left_ear")
        /\ \A k \in 1 .. (j - 1) : ~Named(landmarks[k], "left_ear")
        /\ "x" \in DOMAIN landmarks[i] /\ "x" \in DOMAIN landmarks[j]
        /\ 2 * Abs(landmarks[j].x - landmarks[i].x) = 0

\* C9: without a reference length, _calculate_scale_factor returns the
\* default factor 0.4 whenever the pixel proxy distance is 0 or nose or
\* left_ear is missing; it returns a value and raises nothing.
C9_DefaultScaleFactor ==
    (Returned("_calculate_scale_factor") /\ ~truthy(args.reference_size_cm)
       /\ \/ ProxyDistanceZero(args.landmarks)
          \/ LandmarkMissing(args.landmarks, "nose")
          \/ LandmarkMissing(args.landmarks, "left_ear")) =>
        /\ raised = "None"
        /\ ret = <<[n |-> 2, d |-> 5]>>

C9_Witness ==
    /\ Returned("_calculate_scale_factor")
    /\ args.reference_size_cm = None
    /\ args.landmarks = <<[name |-> "nose", x |-> 2], [name |-> "left_ear", x |-> 2]>>
    /\ ret = <<[n |-> 2, d |-> 5]>>

\* C10: the scale factor is strictly positive in every reachable state:
\* every value _calculate_scale_factor returns is > 0, and after any
\* sequence of calibrate_scale calls with any arguments, starting from 0.1,
\* pixel_to_cm_ratio is > 0.
C10_ScaleFactorPositive ==
    /\ (Returned("_calculate_scale_factor") /\ raised = "None") => ret[1].n > 0
    /\ pixel_to_cm_ratio.n > 0

\* the ratios that applying the calls of the threads in S one after another,
\* in any order, can leave
RECURSIVE SequentialRatios(_, _)
SequentialRatios(ratio, S) ==
    IF S = {} THEN {ratio}
    ELSE UNION {SequentialRatios(calibrate_scale(ratio, args[t].known_measurement,
                                                 args[t].measured_pixels), S \ {t})
                : t \in S}

AllThreadsDone == pc = "threads" /\ \A t \in Threads : threads[t].pc = "done"

\* C11: when calibrate_scale is invoked concurrently on the shared
\* MeasurementCalculator, the read-modify-write of pixel_to_cm_ratio is
\* mutually exclusive: the final ratio equals the result of applying the
\* same calls one after another in some order, so no update is lost.
C11_NoLostUpdate ==
    AllThreadsDone => pixel_to_cm_ratio \in SequentialRatios(Rat(1, 10), Threads)

Fused == Returned("combine_multi_scan_results") /\ raised = "None"

Views == DOMAIN args.scan_results

\* C12: given exactly one view, fusion returns that view's measurements
\* exactly: every fused value and every fused confidence equals the view's,
\* with no 1.1x bonus.
C12_SingleViewPassThrough ==
    (Fused /\ Cardinality(Views) = 1) =>
        \A v \in Views, m \in FusedMeasurements :
            /\ ret[1][m].value.n * 10 = args.scan_results[v][m].value * ret[1][m].value.d
            /\ ret[1][m].confidence.n * 100 =
                  args.scan_results[v][m].confidence * ret[1][m].confidence.d

\* the trust weights as the claim states them, in hundredths
TrustWeight == [front |-> 40, back |-> 30, side_left |-> 15, side_right |-> 15]

WeightTotal == Sum([v \in Views |-> TrustWeight[v]], Views)

WeightedSum(m, field) ==
    Sum([v \in Views |-> TrustWeight[v] * args.scan_results[v][m][field]], Views)

\* C13: for every non-empty subset of the four views, each fused value is
\* the sum over the present views of weight x value divided by the sum of
\* the present views' weights (front 0.40, back 0.30, side_left 0.15,
\* side_right 0.15); the fused confidence is the same weighted average of
\* the views' confidences, before the bonus (x1.1, capped at 1).
C13_WeightedAverage ==
    (Returned("combine_multi_scan_results") /\ Views # {}) =>
        /\ raised = "None"
        /\ \A m \in FusedMeasurements :
              /\ ret[1][m].value.n * 10 * WeightTotal =
                    WeightedSum(m, "value") * ret[1][m].value.d
              /\ IF 11 * WeightedSum(m, "confidence") > 1000 * WeightTotal
                 THEN ret[1][m].confidence = [n |-> 1, d |-> 1]
                 ELSE ret[1][m].confidence.n * 1000 * WeightTotal =
                         11 * WeightedSum(m, "confidence") * ret[1][m].confidence.d

C13_Witness ==
    /\ Fused
    /\ Views = {"front", "side_left"}
    /\ args.scan_results["front"].height.value = 700
    /\ args.scan_results["side_left"].height.value = 850
    /\ ret[1].height.value = [n |-> 815, d |-> 11]

\* C14: with every per-view confidence in [0,1], every fused confidence is
\* in [0,1] and is at least the minimum of the confidences of the views
\* that contributed to it.
C14_FusedConfidenceBounds ==
    Fused =>
        \A m \in FusedMeasurements :
            /\ ret[1][m].confidence.n >= 0
            /\ ret[1][m].confidence.n <= ret[1][m].confidence.d
            /\ \E v \in Views :
                  ret[1][m].confidence.n * 100 >=
                      args.scan_results[v][m].confidence * ret[1][m].confidence.d

C14_Witness ==
    /\ Fused
    /\ Cardinality(Views) = 3
    /\ \E m \in FusedMeasurements :
          /\ ret[1][m].confidence = [n |-> 1, d |-> 1]
          /\ \E v \in Views : args.scan_results[v][m].confidence < 100

PercentileOf(z) == z_score_to_percentile(Rat(z, 10))

\* C15: the z-score to percentile mapping is monotonically increasing
\* (z1 < z2 implies percentile(z1) <= percentile(z2)), maps z = 0 to the
\* 50th percentile, and percentile(z) + percentile(-z) = 100 for every z.
C15_PercentileMonotoneSymmetric ==
    Returned("_z_score_to_percentile") =>
        /\ \A z2 \in ZScores : args.z_score < z2 => RatGE(PercentileOf(z2), ret[1])
        /\ args.z_score = 0 => ret[1] = [n |-> 50, d |-> 1]
        /\ RatAdd(ret[1], PercentileOf(-args.z_score)) = [n |-> 100, d |-> 1]

C15_Witness ==
    /\ Returned("_z_score_to_percentile")
    /\ args.z_score = 30
    /\ ret[1] = [n |-> 999, d |-> 10]

\* 100 x Phi(z) in tenths of a percentile point, at whole z-scores (tenths)
PhiPerMille == [z \in {-20, -10, 0, 10, 20} |->
                   CASE z = -20 -> 23 [] z = -10 -> 159 [] z = 0 -> 500
                     [] z = 10 -> 841 [] z = 20 -> 977]

\* C16: the percentile reported for a z-score is 100 x Phi(z), the standard
\* normal cumulative distribution (about 84.1 at z = 1, 97.7 at z = 2, 2.3
\* at z = -2), here to within half a percentile point.
C16_PercentileIsNormalCdf ==
    (Returned("_z_score_to_percentile") /\ args.z_score \in DOMAIN PhiPerMille) =>
        /\ 10 * ret[1].n - PhiPerMille[args.z_score] * ret[1].d <= 5 * ret[1].d
        /\ PhiPerMille[args.z_score] * ret[1].d - 10 * ret[1].n <= 5 * ret[1].d

\* the approximation parameters as the claim's formula reads them: birth
\* value in tenths, monthly increment and standard deviation in hundredths,
\* decay per month in thousandths
HeightReference == [male   |-> [birth |-> 499, increment |-> 120, std |-> 200],
                    female |-> [birth |-> 491, increment |-> 110, std |-> 200]]

WeightReference == [male   |-> [birth |-> 33, increment |-> 40, std |-> 80],
                    female |-> [birth |-> 32, increment |-> 38, std |-> 75]]

\* birth + age x increment x (1 - decay x age), times 100000
ExpectedNumerator(ref, decay, age) ==
    ref.birth * 10000 + age * ref.increment * (1000 - decay * age)

\* expected and z-score of a returned dict agree with the formula
FollowsFormula(ref, decay, age, observed, expected, z) ==
    /\ expected = Rat(ExpectedNumerator(ref, decay, age), 100000)
    /\ z = Rat(observed * 10000 - ExpectedNumerator(ref, decay, age), 1000 * ref.std)

\* C17: in the approximation path, for every age in 0..60 months and gender
\* in {male, female}, expected height = birth_length + age x
\* monthly_increment x (1 - 0.005 x age) and z = (height - expected) /
\* std_dev, likewise weight with decay 0.008; for age 24, male, 78.5 cm the
\* height-for-age z-score lies strictly between -3 and +3.
C17_ApproximationFormula ==
    /\ (Returned("_approximate_height_for_age") /\ args.gender \in {"male", "female"}) =>
          /\ FollowsFormula(HeightReference[args.gender], 5, args.age_months,
                            args.height_cm, ret[1].height_expected, ret[1].height_z_score)
          /\ (args.age_months = 24 /\ args.gender = "male" /\ args.height_cm = 785) =>
                /\ ret[1].height_z_score.n > -3 * ret[1].height_z_score.d
                /\ ret[1].height_z_score.n < 3 * ret[1].height_z_score.d
    /\ (Returned("_approximate_weight_for_age") /\ args.gender \in {"male", "female"}) =>
          FollowsFormula(WeightReference[args.gender], 8, args.age_months,
                         args.weight_kg, ret[1].weight_expected, ret[1].weight_z_score)

C17_Witness ==
    /\ Returned("_approximate_height_for_age")
    /\ args = [height_cm |-> 785, age_months |-> 24, gender |-> "male"]
    /\ ret[1].height_expected = [n |-> 18811, d |-> 250]
    /\ ret[1].height_z_score = [n |-> 407, d |-> 250]

\* the rearrangements of a list: the lists with the same multiset of poses
Rearrangements(list) ==
    {[i \in DOMAIN list |-> list[f[i]]] :
        f \in {g \in [DOMAIN list -> DOMAIN list] : \A i \in DOMAIN list : \E j \in DOMAIN list : g[j] = i}}

QualityOf(pose) == IF "quality_score" \in DOMAIN pose THEN pose.quality_score ELSE 0

\* mean frame quality plus the bonus for high-quality frames, no penalty
UnpenalisedScore(list) ==
    LET total == Sum([i \in DOMAIN list |-> QualityOf(list[i])], DOMAIN list)
        high == Cardinality({i \in DOMAIN list : QualityOf(list[i]) > 70})
    IN  RatAdd(Rat(total, 100 * Len(list)),
               RatMin(Rat(high, 5), Rat(1, 5)))

Clamp01(x) == IF x.n < 0 THEN Rat(0, 1) ELSE IF x.n > x.d THEN Rat(1, 1) ELSE x

\* C18: for every non-empty list of frames with qualities in [0,1] the
\* scan quality lies in [0,1], is the same for every list with the same
\* multiset of frame qualities, and with n < 3 frames it is the unpenalised
\* score less 0.1 x (3 - n), then clamped.
C18_ScanQuality ==
    (Returned("_assess_measurement_quality") /\ Len(args.pose_results) > 0) =>
        LET n == Len(args.pose_results)
        IN  /\ ret[1].n >= 0 /\ ret[1].n <= ret[1].d
            /\ \A other \in Rearrangements(args.pose_results) :
                  assess_measurement_quality(other) = ret[1]
            /\ n < 3 => ret[1] = Clamp01(RatAdd(UnpenalisedScore(args.pose_results),
                                                 Rat(n - 3, 10)))
            /\ n >= 3 => ret[1] = Clamp01(UnpenalisedScore(args.pose_results))

C18_Witness ==
    /\ Returned("_assess_measurement_quality")
    /\ args.pose_results = <<[quality_score |-> 50], [quality_score |-> 70]>>
    /\ ret[1] = [n |-> 1, d |-> 2]

NoUsableFrame ==
    \A i \in DOMAIN args.pose_results : ~IsPosePresent(args.pose_results[i])

MeasurementNames ==
    {"shoulder_width", "hip_width", "head_to_ground_distance", "arm_length",
     "leg_length", "torso_length", "head_circumference_ratio", "body_depth"}

\* C19: calculate_measurements never raises, and given an empty frame list
\* or a list in which no frame is marked pose_present it returns a set with
\* no measurement and with quality 0.
C19_EmptyResultQualityZero ==
    Returned("calculate_measurements") =>
        /\ raised = "None"
        /\ NoUsableFrame =>
              /\ DOMAIN ret[1] \cap MeasurementNames = {}
              /\ "measurement_quality" \in DOMAIN ret[1]
              /\ ret[1].measurement_quality = [n |-> 0, d |-> 1]

\* the landmarks each measurement cannot do without
RequiredLandmarks ==
    [shoulder_width |-> {11, 12}, hip_width |-> {23, 24},
     head_to_ground_distance |-> {0}, arm_length |-> {11, 13, 15},
     leg_length |-> {23, 25, 27}, torso_length |-> {11, 23},
     head_circumference_ratio |-> {0}]

\* the landmarks of which one suffices
AlternativeLandmarks ==
    [head_to_ground_distance |-> {27, 28}, head_circumference_ratio |-> {7, 8},
     body_depth |-> {11, 12}]

Unreliable(i) == kp(args.pose_results[1].keypoints, i)[4] < 50

\* C20: a measurement that depends on a landmark whose visibility is below
\* 0.5 is absent from the returned set: one of its required landmarks
\* unreliable, or all of its alternative landmarks unreliable, and the
\* measurement is not reported.
C20_UnreliableLandmarkOmitted ==
    (Returned("calculate_measurements") /\ args.pose_results \in LandmarkScenarios) =>
        /\ \A m \in DOMAIN RequiredLandmarks :
              (\E i \in RequiredLandmarks[m] : Unreliable(i)) => m \notin DOMAIN ret[1]
        /\ \A m \in DOMAIN AlternativeLandmarks :
              (\A i \in AlternativeLandmarks[m] : Unreliable(i)) => m \notin DOMAIN ret[1]

ValidPoses == SelectSeq(args.pose_results, IsPosePresent)

\* C21: the result of calculate_measurements (every measurement value and
\* measurement_quality) is identical to the result obtained after removing
\* every frame whose pose_present flag is false or missing.
C21_AbsentFramesExcluded ==
    Returned("calculate_measurements") =>
        ret[1] = calculate_measurements(ValidPoses, args.scan_type, args.age_months,
                                        pixel_to_cm_ratio)

C21_Witness ==
    /\ Returned("calculate_measurements")
    /\ Len(args.pose_results) = 3
    /\ Len(ValidPoses) = 1
    /\ \E i \in DOMAIN args.pose_results :
          /\ ~IsPosePresent(args.pose_results[i])
          /\ get(args.pose_results[i], "quality_score", 0) = 90
    /\ "arm_length" \in DOMAIN ret[1]

\* the 17-point vocabulary of the pose estimator: nose 0, shoulders 5 and 6,
\* hips 11 and 12, ankles 15 and 16
ConfidentSeventeen(keypoints) ==
    /\ Len(keypoints) = 17
    /\ \A j \in DOMAIN keypoints :
          keypoints[j][1] > 0 /\ keypoints[j][2] > 0 /\ keypoints[j][4] > 50

\* C22: for a front or back scan whose best frame carries the 17-point
\* vocabulary with every landmark confidently detected at positive
\* coordinates, the result contains shoulder width, hip width and the height
\* proxy, each the pixel distance times the scale factor.
C22_FrontalFromSeventeenPoints ==
    (/\ Returned("calculate_measurements")
     /\ args.scan_type \in {"front", "back"}
     /\ best_pose(ValidPoses) # None
     /\ ConfidentSeventeen(best_pose(ValidPoses)[1].keypoints)) =>
        LET keypoints == best_pose(ValidPoses)[1].keypoints
        IN  /\ {"shoulder_width", "hip_width", "head_to_ground_distance"} \subseteq DOMAIN ret[1]
            /\ ret[1].shoulder_width =
                  RatMul(Rat(norm(kp(keypoints, 5), kp(keypoints, 6)), 1), pixel_to_cm_ratio)
            /\ ret[1].hip_width =
                  RatMul(Rat(norm(kp(keypoints, 11), kp(keypoints, 12)), 1), pixel_to_cm_ratio)
            /\ ret[1].head_to_ground_distance =
                  RatMul(Rat(Abs(kp(keypoints, 15)[2] + kp(keypoints, 16)[2]
                                 - 2 * kp(keypoints, 0)[2]), 2), pixel_to_cm_ratio)

HighQualityFrames(list) == Cardinality({i \in DOMAIN list : QualityOf(list[i]) > 70})

MeanQuality(list) ==
    Rat(Sum([i \in DOMAIN list |-> QualityOf(list[i])], DOMAIN list), 100 * Len(list))

\* C23: a scan with fewer than 5 high-quality frames (quality > 0.7) gets no
\* consistency bonus: its quality is the mean frame quality less the
\* quantity penalty, clamped; in particular with no high-quality frame.
C23_BonusNeedsFiveFrames ==
    (/\ Returned("_assess_measurement_quality")
     /\ Len(args.pose_results) > 0
     /\ HighQualityFrames(args.pose_results) < 5) =>
        ret[1] = Clamp01(RatAdd(MeanQuality(args.pose_results),
                                IF Len(args.pose_results) < 3
                                THEN Rat(Len(args.pose_results) - 3, 10) ELSE Rat(0, 1)))

CommonPart(d) == [k \in DOMAIN d \cap {"arm_length", "leg_length", "torso_length"} |-> d[k]]

\* the orders of a list from best to worst quality, ties in any order
BestFirstOrders(list) ==
    {o \in Rearrangements(list) :
        \A i, j \in DOMAIN o : i < j => QualityOf(o[i]) >= QualityOf(o[j])}

\* C24: arm, leg and torso length are the median over all frames of
\* quality above 0.6; when there is none they are computed from the 3
\* highest-quality frames, whatever the order of the frames in the input.
C24_CommonFromBestFrames ==
    (Returned("calculate_measurements") /\ ValidPoses # <<>>) =>
        \E o \in BestFirstOrders(ValidPoses) :
            CommonPart(ret[1]) =
                apply_age_corrections(calculate_common_measurements(o, pixel_to_cm_ratio),
                                      args.age_months)

\* a frame with no visibility scores, or with 17 scores all above or none
\* above 0.5: its score by the rule is not in doubt
ClearSeventeen(p) ==
    "visibility_scores" \in DOMAIN p =>
        /\ Len(p.visibility_scores) = 17
        /\ \/ \A j \in 1 .. 17 : p.visibility_scores[j] > 50
           \/ \A j \in 1 .. 17 : p.visibility_scores[j] <= 50

\* quality, times 1.2 when all 17 landmarks have visibility above 0.5
RuleScore(p) ==
    IF "visibility_scores" \in DOMAIN p /\ \A j \in 1 .. 17 : p.visibility_scores[j] > 50
    THEN QualityOf(p) * 12 ELSE QualityOf(p) * 10

\* C25: extract_key_frames returns at most 10 distinct frame indices in
\* descending order of score, every returned frame scoring at least as
\* much as every frame not returned; the score is the quality, times 1.2
\* when all 17 landmarks have visibility above 0.5.
C25_KeyFramesByScore ==
    (/\ Returned("extract_key_frames")
     /\ \A i \in DOMAIN args.pose_results : ClearSeventeen(args.pose_results[i])) =>
        LET list == args.pose_results
            out == ret[1]
            returned == {out[k] + 1 : k \in DOMAIN out}
        IN  /\ Len(out) <= 10
            /\ Cardinality(returned) = Len(out)
            /\ returned \subseteq DOMAIN list
            /\ \A a, b \in DOMAIN out :
                  a < b => RuleScore(list[out[a] + 1]) >= RuleScore(list[out[b] + 1])
            /\ \A r \in returned, u \in DOMAIN list \ returned :
                  RuleScore(list[r]) >= RuleScore(list[u])

\* does frame i have another present frame with keypoints in its window?
HasPresentNeighbour(list, i) ==
    \E j \in DOMAIN list :
        /\ j # i /\ j >= i - 2 /\ j <= i + 2
        /\ "pose_present" \in DOMAIN list[j] /\ list[j].pose_present
        /\ "keypoints" \in DOMAIN list[j] /\ list[j].keypoints # <<>>

\* C26: smooth_pose_sequence returns a sequence of the same length and
\* order as its input, never modifies an input frame, and returns
\* unmodified every frame that is not present and every present frame with
\* no other present frame (with keypoints) inside its 5-frame window.
C26_SmoothingIsPure ==
    Returned("smooth_pose_sequence") =>
        LET list == args.pose_results
        IN  /\ raised = "None"
            /\ Len(ret[1]) = Len(list)
            /\ ret[2] = list
            /\ \A i \in DOMAIN list :
                  /\ \A key \in DOMAIN list[i] \ {"keypoints"} :
                        key \in DOMAIN ret[1][i] /\ ret[1][i][key] = list[i][key]
                  /\ ~("pose_present" \in DOMAIN list[i] /\ list[i].pose_present)
                        => ret[1][i] = list[i]
                  /\ ~HasPresentNeighbour(list, i) => ret[1][i] = list[i]

C26_Witness ==
    /\ Returned("smooth_pose_sequence")
    /\ Len(args.pose_results) = 5
    /\ ret[1][1] # args.pose_results[1]
    /\ ret[1][2] # args.pose_results[2]
    /\ ret[1][5] = args.pose_results[5]
    /\ "pose_present" \in DOMAIN args.pose_results[5] /\ args.pose_results[5].pose_present
    /\ args.pose_results[5].keypoints # <<>>
    /\ ~HasPresentNeighbour(args.pose_results, 5)

StatusRank(status) ==
    CASE status = "normal" -> 0 [] status = "mild" -> 1
      [] status = "moderate" -> 2 [] status = "severe" -> 3

RiskRank(risk) ==
    CASE risk = "low" -> 0 [] risk = "medium" -> 1
      [] risk = "high" -> 2 [] risk = "critical" -> 3

\* the metrics with one z-score replaced
WithZ(metrics, key, z) ==
    [k \in DOMAIN metrics \cup {key} |-> IF k = key THEN z ELSE metrics[k]]

StatusKey == [height_z_score |-> "stunting_status", wfh_z_score |-> "wasting_status",
              weight_z_score |-> "underweight_status"]

\* C28: with normal < mild < moderate < severe and low < medium < high <
\* critical, making one of the three indicator statuses worse while the
\* other two stay as they are never lowers the overall_risk.
C28_RiskMonotone ==
    Returned("assess_nutritional_status") =>
        \A key \in MetricKeys, z \in MetricZScores :
            LET worse == assess_nutritional_status(WithZ(args.who_metrics, key, z))
            IN  StatusRank(worse[StatusKey[key]]) > StatusRank(ret[StatusKey[key]])
                    => RiskRank(worse.overall_risk) >= RiskRank(ret.overall_risk)

\* two mild statuses: the next worse state of either has one moderate status
C28_Witness ==
    /\ Returned("assess_nutritional_status")
    /\ ret.stunting_status = "mild" /\ ret.wasting_status = "mild"
    /\ ret.underweight_status = "normal"
    /\ ret.overall_risk = "medium"
    /\ assess_nutritional_status(WithZ(args.who_metrics, "wfh_z_score", -25)).overall_risk
          = "medium"

Calibrated == pc = "idle" /\ op = "calibrate_scale"

\* C27: calibrate_scale(known, pixels) with pixels > 0 sets
\* pixel_to_cm_ratio to 0.7 x previous ratio + 0.3 x (known / pixels) and
\* returns it; with pixels <= 0 it leaves pixel_to_cm_ratio and the rest of
\* the calculator's state unchanged and returns the current ratio.
C27_CalibrationBlend ==
    Calibrated =>
        /\ ret = <<pixel_to_cm_ratio>>
        /\ focal_length = [n |-> 800, d |-> 1]
        /\ camera_height = [n |-> 3, d |-> 2]
        /\ IF args.measured_pixels > 0
           THEN pixel_to_cm_ratio =
                    Rat(7 * args.ratio_before.n * args.measured_pixels
                            + 3 * args.known_measurement * args.ratio_before.d,
                        10 * args.ratio_before.d * args.measured_pixels)
           ELSE pixel_to_cm_ratio = args.ratio_before

C27_Witness ==
    /\ Calibrated
    /\ calibrations = 2
    /\ args = [known_measurement |-> 1, measured_pixels |-> 2,
               ratio_before |-> [n |-> 37, d |-> 100]]
    /\ pixel_to_cm_ratio = [n |-> 409, d |-> 1000]

GivenNotWithdrawnNotExpired(consent, now) ==
    /\ consent.consent_given
    /\ consent.withdrawn_at = None
    /\ ~(consent.expiry_date # None /\ consent.expiry_date[1] < now)

SessionCreated == pc = "backend" /\ Len(backend'.sessions) > Len(backend.sessions)

===========================================================================
